---------------------------- MODULE Spec2Model ----------------------------
(***************************************************************************)
(* Prompt pipeline executor of the promptengine backend: the LLM client    *)
(* adapter (execute_prompt), the result parser (_sanitize_json followed by *)
(* json.loads), the pipeline runners of promptengine/services.py and the   *)
(* execution recorder of promptengine/views.py.                            *)
(*                                                                         *)
(* A text is a sequence of one-character strings.                          *)
(***************************************************************************)
EXTENDS Integers, Sequences, FiniteSets, TLC

\* ------------------------------------------------------------------ bounds

\* Longest text of the exhaustive input set of the sanitizer.
MaxTextLen == 4

\* Largest max_rounds a request asks for (the serializer allows 1 to 5).
MaxRounds == 2

\* Largest max_retries a request asks for (the serializer allows 1 to 5).
MaxRetries == 3

\* Largest number of sub-tasks in a plan the planner writes.
MaxSubTasks == 3

\* Largest number of personas a request names (the serializer allows 2 to 6).
MaxPersonas == 2

\* Largest number of knowledge chunks a request carries (the serializer
\* allows 1 to 20).
MaxChunks == 4

\* Largest number of inputs of a batch evaluation (the serializer allows 1
\* to 50).
MaxInputs == 3

\* Most words of a text put together from the sanitizer's words.
MaxWords == 3

\* Most test cases of a suite.
MaxCases == 2

\* The feature requests that are handled at the same time.
MaxWorkers == 2

\* Largest token count of the exhaustive input set of the cost estimate
\* (besides 1000).
MaxTokens == 4

\* ------------------------------------------------------------ characters

UpperChars ==
  <<"A","B","C","D","E","F","G","H","I","J","K","L","M",
    "N","O","P","Q","R","S","T","U","V","W","X","Y","Z">>

LowerChars ==
  <<"a","b","c","d","e","f","g","h","i","j","k","l","m",
    "n","o","p","q","r","s","t","u","v","w","x","y","z">>

DigitChars ==
  <<"0","1","2","3","4","5","6","7","8","9">>

\* The backtick character (U+0060), which a TLA+ string cannot hold.
Tick == "BACKTICK"

Range(f) ==
  {f[i] : i \in DOMAIN f}

\* The space class of the regular expressions; what str.strip() removes.
IsSpace(c) ==
  c \in {" ", "\n", "\t", "\r"}

\* The word class of the regular expressions (decides a word boundary).
IsWord(c) ==
  c \in Range(UpperChars) \cup Range(LowerChars) \cup Range(DigitChars) \cup {"_"}

\* re.IGNORECASE compares letters by their lower-case form.
Lower(c) ==
  IF c \in Range(UpperChars)
    THEN LowerChars[CHOOSE k \in DOMAIN UpperChars : UpperChars[k] = c]
    ELSE c

LowerText(s) ==
  [i \in DOMAIN s |-> Lower(s[i])]

\* ------------------------------------------------------------ text helpers

\* The least number of a non-empty set of numbers.
Least(S) ==
  CHOOSE x \in S : \A y \in S : x <= y

\* The text w occurs in s at index i.
HasAt(s, i, w) ==
  /\ i >= 1
  /\ i + Len(w) - 1 <= Len(s)
  /\ SubSeq(s, i, i + Len(w) - 1) = w

\* First index >= i of s that holds no space (Len(s) + 1 when there is none).
RECURSIVE SkipSpace(_, _)
SkipSpace(s, i) ==
  IF i <= Len(s) /\ IsSpace(s[i]) THEN SkipSpace(s, i + 1) ELSE i

\* Last index <= i of s whose character is not in cs (0 when there is none).
RECURSIVE SkipBack(_, _, _)
SkipBack(s, i, cs) ==
  IF i >= 1 /\ s[i] \in cs THEN SkipBack(s, i - 1, cs) ELSE i

\* str.strip()
Strip(s) ==
  LET a == SkipSpace(s, 1)
      b == SkipBack(s, Len(s), {" ", "\n", "\t", "\r"})
  IN  IF a > b THEN <<>> ELSE SubSeq(s, a, b)

\* str.rstrip of the backtick character.
RStripTicks(s) ==
  SubSeq(s, 1, SkipBack(s, Len(s), {Tick}))

\* str.find(c): the 0-based index of the first c, -1 when there is none.
Find(s, c) ==
  IF \E i \in DOMAIN s : s[i] = c
    THEN (CHOOSE i \in DOMAIN s : s[i] = c /\ \A j \in 1..(i - 1) : s[j] # c) - 1
    ELSE -1

\* str.rfind(c): the 0-based index of the last c, -1 when there is none.
RFind(s, c) ==
  IF \E i \in DOMAIN s : s[i] = c
    THEN (CHOOSE i \in DOMAIN s : s[i] = c /\ \A j \in (i + 1)..Len(s) : s[j] # c) - 1
    ELSE -1

\* ------------------------------------------------------------ _sanitize_json

\* A rewrite that leaves every comma where it is.
KeepTrailingCommas(s, i) ==
  SubSeq(s, i, Len(s))

Fence == <<Tick, Tick, Tick>>

\* A match of the code-fence expression (three backticks, an optional json,
\* any run of spaces) at index i ends before the index returned;
\* 0 when the expression does not match at i.
FenceEnd(s, i) ==
  IF HasAt(s, i, Fence)
    THEN LET j == i + 3
             k == IF HasAt(s, j, <<"j", "s", "o", "n">>) THEN j + 4 ELSE j
         IN  SkipSpace(s, k)
    ELSE 0

\* re.sub of the code-fence expression by the empty text, from index i:
\* the matches are taken from left to right and do not overlap.
RECURSIVE RemoveFences(_, _)
RemoveFences(s, i) ==
  LET at == {k \in i..Len(s) : FenceEnd(s, k) > 0}
  IN  IF at = {} THEN SubSeq(s, i, Len(s))
      ELSE LET m == Least(at)
           IN  SubSeq(s, i, m - 1) \o RemoveFences(s, FenceEnd(s, m))

\* A match of a colon, any run of spaces, the word in any letter case and a
\* word boundary at index i ends before the index returned; 0 when the
\* expression does not match at i.
LiteralEnd(s, i, word) ==
  IF i <= Len(s) /\ s[i] = ":"
    THEN LET j == SkipSpace(s, i + 1)
             e == j + Len(word)
         IN  IF /\ e - 1 <= Len(s)
                /\ LowerText(SubSeq(s, j, e - 1)) = word
                /\ (e > Len(s) \/ ~IsWord(s[e]))
               THEN e
               ELSE 0
    ELSE 0

\* re.sub of that expression by a colon, one space and the lower-case word,
\* from index i.
RECURSIVE RewriteLiteral(_, _, _)
RewriteLiteral(s, i, word) ==
  LET at == {k \in i..Len(s) : LiteralEnd(s, k, word) > 0}
  IN  IF at = {} THEN SubSeq(s, i, Len(s))
      ELSE LET m == Least(at)
           IN  SubSeq(s, i, m - 1) \o <<":", " ">> \o word
                 \o RewriteLiteral(s, LiteralEnd(s, m, word), word)

\* A match of a comma, any run of spaces and a closing brace or bracket at
\* index i: the index of the closing bracket;
\* 0 when the expression does not match at i.
TrailingCommaEnd(s, i) ==
  IF i <= Len(s) /\ s[i] = ","
    THEN LET j == SkipSpace(s, i + 1)
         IN  IF j <= Len(s) /\ s[j] \in {"}", "]"} THEN j ELSE 0
    ELSE 0

\* re.sub of that expression by its closing bracket, from index i.
RECURSIVE RemoveTrailingCommas(_, _)
RemoveTrailingCommas(s, i) ==
  LET at == {k \in i..Len(s) : TrailingCommaEnd(s, k) > 0}
  IN  IF at = {} THEN SubSeq(s, i, Len(s))
      ELSE LET m == Least(at)
           IN  SubSeq(s, i, m - 1) \o <<s[TrailingCommaEnd(s, m)]>>
                 \o RemoveTrailingCommas(s, TrailingCommaEnd(s, m) + 1)

NullWord  == <<"n", "u", "l", "l">>

TrueWord  == <<"t", "r", "u", "e">>

FalseWord == <<"f", "a", "l", "s", "e">>

_sanitize_json(text) ==
  LET c1 == Strip(RemoveFences(text, 1))
      c2 == Strip(RStripTicks(c1))
      c3 == RewriteLiteral(c2, 1, NullWord)
      c4 == RewriteLiteral(c3, 1, TrueWord)
      c5 == RewriteLiteral(c4, 1, FalseWord)
  IN  RemoveTrailingCommas(c5, 1)

\* ------------------------------------------------------------ json.loads
\* A parsed JSON value: t is its type ("null", "bool", "num", "str", "arr",
\* "obj"), b a bool's value, n a number's value, s a string's characters and
\* kids an array's values or an object's members ([k |-> key, v |-> value],
\* in the order written).  The texts parsed hold no backslash, and numbers
\* are integers.

JNull == [t |-> "null", b |-> FALSE, n |-> 0, s |-> <<>>, kids |-> <<>>]

JBool(x) == [t |-> "bool", b |-> x, n |-> 0, s |-> <<>>, kids |-> <<>>]

JNum(x) == [t |-> "num", b |-> FALSE, n |-> x, s |-> <<>>, kids |-> <<>>]

JStr(x) == [t |-> "str", b |-> FALSE, n |-> 0, s |-> x, kids |-> <<>>]

JArr(x) == [t |-> "arr", b |-> FALSE, n |-> 0, s |-> <<>>, kids |-> x]

JObj(x) == [t |-> "obj", b |-> FALSE, n |-> 0, s |-> <<>>, kids |-> x]

\* The result of a parsing step: the value and the index after it, or a
\* failure (json.JSONDecodeError).
Parsed(v, at) == [ok |-> TRUE, v |-> v, at |-> at]

ParseFail == [ok |-> FALSE, v |-> JNull, at |-> 0]

\* The whitespace json.loads skips.
RECURSIVE SkipJsonSpace(_, _)
SkipJsonSpace(s, i) ==
  IF i <= Len(s) /\ s[i] \in {" ", "\n", "\t", "\r"}
    THEN SkipJsonSpace(s, i + 1)
    ELSE i

IsDigit(c) ==
  c \in Range(DigitChars)

DigitValue(c) ==
  (CHOOSE k \in DOMAIN DigitChars : DigitChars[k] = c) - 1

\* The digits of s from index i on, read as a number continuing acc.
RECURSIVE ParseDigits(_, _, _)
ParseDigits(s, i, acc) ==
  IF i <= Len(s) /\ IsDigit(s[i])
    THEN ParseDigits(s, i + 1, acc * 10 + DigitValue(s[i]))
    ELSE Parsed(JNum(acc), i)

\* An integer at index i: an optional minus sign, then 0 or a digit string
\* without a leading zero.
ParseNumber(s, i) ==
  LET neg == i <= Len(s) /\ s[i] = "-"
      j   == IF neg THEN i + 1 ELSE i
  IN  IF j > Len(s) \/ ~IsDigit(s[j]) THEN ParseFail
      ELSE LET p == IF s[j] = "0" THEN Parsed(JNum(0), j + 1)
                                  ELSE ParseDigits(s, j, 0)
           IN  IF neg THEN Parsed(JNum(0 - p.v.n), p.at) ELSE p

\* The string whose opening quote is at index i - 1: it ends at the next
\* quote and holds no control character.
ParseString(s, i) ==
  IF \E j \in i..Len(s) : s[j] = "\""
    THEN LET e == CHOOSE j \in i..Len(s) :
                    s[j] = "\"" /\ \A k \in i..(j - 1) : s[k] # "\""
         IN  IF \E k \in i..(e - 1) : s[k] \in {"\n", "\t", "\r"}
               THEN ParseFail
               ELSE Parsed(JStr(SubSeq(s, i, e - 1)), e + 1)
    ELSE ParseFail

RECURSIVE ParseValue(_, _), ParseMembers(_, _, _), ParseElements(_, _, _)

\* The value that starts at index i.
ParseValue(s, i) ==
  IF i > Len(s) THEN ParseFail
  ELSE IF s[i] = "\"" THEN ParseString(s, i + 1)
  ELSE IF s[i] = "{" THEN
    LET j == SkipJsonSpace(s, i + 1)
    IN  IF j <= Len(s) /\ s[j] = "}" THEN Parsed(JObj(<<>>), j + 1)
        ELSE ParseMembers(s, j, <<>>)
  ELSE IF s[i] = "[" THEN
    LET j == SkipJsonSpace(s, i + 1)
    IN  IF j <= Len(s) /\ s[j] = "]" THEN Parsed(JArr(<<>>), j + 1)
        ELSE ParseElements(s, j, <<>>)
  ELSE IF HasAt(s, i, NullWord) THEN Parsed(JNull, i + 4)
  ELSE IF HasAt(s, i, TrueWord) THEN Parsed(JBool(TRUE), i + 4)
  ELSE IF HasAt(s, i, FalseWord) THEN Parsed(JBool(FALSE), i + 5)
  ELSE ParseNumber(s, i)

\* The members of an object from index i (a key's opening quote) on, after
\* the members acc.
ParseMembers(s, i, acc) ==
  IF i > Len(s) \/ s[i] # "\"" THEN ParseFail
  ELSE LET key == ParseString(s, i + 1)
       IN  IF ~key.ok THEN ParseFail
           ELSE LET c == SkipJsonSpace(s, key.at)
                IN  IF c > Len(s) \/ s[c] # ":" THEN ParseFail
                    ELSE LET val == ParseValue(s, SkipJsonSpace(s, c + 1))
                         IN  IF ~val.ok THEN ParseFail
                             ELSE LET e   == SkipJsonSpace(s, val.at)
                                      all == Append(acc, [k |-> key.v.s, v |-> val.v])
                                  IN  IF e > Len(s) THEN ParseFail
                                      ELSE IF s[e] = "}" THEN Parsed(JObj(all), e + 1)
                                      ELSE IF s[e] = ","
                                        THEN ParseMembers(s, SkipJsonSpace(s, e + 1), all)
                                      ELSE ParseFail

\* The elements of an array from index i on, after the elements acc.
ParseElements(s, i, acc) ==
  LET val == ParseValue(s, i)
  IN  IF ~val.ok THEN ParseFail
      ELSE LET e   == SkipJsonSpace(s, val.at)
               all == Append(acc, val.v)
           IN  IF e > Len(s) THEN ParseFail
               ELSE IF s[e] = "]" THEN Parsed(JArr(all), e + 1)
               ELSE IF s[e] = "," THEN ParseElements(s, SkipJsonSpace(s, e + 1), all)
               ELSE ParseFail

\* json.loads(s): one value, with nothing but whitespace around it.
json_loads(s) ==
  LET p == ParseValue(s, SkipJsonSpace(s, 1))
  IN  IF p.ok /\ SkipJsonSpace(s, p.at) > Len(s) THEN p ELSE ParseFail

\* dict.get(key, default) on a parsed object: the last member of that key.
DictGet(obj, key, default) ==
  LET at == {i \in DOMAIN obj.kids : obj.kids[i].k = key}
  IN  IF at = {} THEN default
      ELSE obj.kids[CHOOSE i \in at : \A j \in at : j <= i].v

\* Python's truth value of a parsed value.
Truthy(v) ==
  CASE v.t = "null" -> FALSE
    [] v.t = "bool" -> v.b
    [] v.t = "num"  -> v.n # 0
    [] v.t = "str"  -> v.s # <<>>
    [] OTHER        -> v.kids # <<>>

\* ------------------------------------------------------------ execute_prompt

Min(a, b) ==
  IF a < b THEN a ELSE b

\* len(s.split()): the number of maximal runs of characters that are no space.
WordCount(s) ==
  Cardinality({i \in DOMAIN s : ~IsSpace(s[i]) /\ (i = 1 \/ IsSpace(s[i - 1]))})

\* str(n) of a natural number.
RECURSIVE Decimal(_)
Decimal(n) ==
  IF n < 10 THEN <<DigitChars[n + 1]>>
  ELSE Decimal(n \div 10) \o <<DigitChars[(n % 10) + 1]>>

\* The fixed text every demo response starts with.
DemoMarker ==
  <<"[","D","e","m","o"," ","M","o","d","e"," ","-"," ","N","o"," ","A",
        "P","I"," ","k","e","y"," ","c","o","n","f","i","g","u","r","e","d",
        "]">>

\* A demo response that does not start with the marker.
DemoOutputUnmarked(system_prompt, user_prompt) ==
  <<"S","y","s","t","e","m"," ","p","r","o","m","p","t",":"," ">>
    \o SubSeq(system_prompt, 1, Min(100, Len(system_prompt)))
    \o <<".",".",".","\n">>
    \o <<"U","s","e","r"," ","i","n","p","u","t"," ","l","e","n","g","t","h",
         ":"," ">> \o Decimal(Len(user_prompt)) \o <<" ","c","h","a","r","s">>

\* The response returned when no client could be created.
DemoOutput(system_prompt, user_prompt) ==
  DemoMarker
    \o <<"\n","\n","T","h","i","s"," ","i","s"," ","a"," ","s","i","m","u",
         "l","a","t","e","d"," ","r","e","s","p","o","n","s","e"," ","f","o",
         "r"," ","t","h","e"," ","g","i","v","e","n"," ","p","r","o","m","p",
         "t","."," ">>
    \o <<"C","o","n","f","i","g","u","r","e"," ","O","P","E","N","A","I","_",
         "A","P","I","_","K","E","Y"," ","o","r"," ","A","N","T","H","R","O",
         "P","I","C","_","A","P","I","_","K","E","Y"," ","i","n"," ","y","o",
         "u","r"," ",".","e","n","v"," ","f","i","l","e"," ">>
    \o <<"t","o"," ","g","e","t"," ","r","e","a","l"," ","A","I"," ","r","e",
         "s","p","o","n","s","e","s",".","\n","\n">>
    \o <<"S","y","s","t","e","m"," ","p","r","o","m","p","t",":"," ">>
    \o SubSeq(system_prompt, 1, Min(100, Len(system_prompt)))
    \o <<".",".",".","\n">>
    \o <<"U","s","e","r"," ","i","n","p","u","t"," ","l","e","n","g","t","h",
         ":"," ">> \o Decimal(Len(user_prompt)) \o <<" ","c","h","a","r","s">>

\* A rate table that knows no model.
pricing_default(model) ==
  <<100, 200>>

\* The pricing table: the input and output rate of a model, in 1e-8 dollars
\* per token (the source gives dollars per 1000 tokens).
pricing(model) ==
  CASE model = "gpt-4o-mini"                -> <<15, 60>>
    [] model = "gpt-4o"                     -> <<500, 1500>>
    [] model = "gpt-4"                      -> <<3000, 6000>>
    [] model = "claude-3-5-sonnet-20241022" -> <<300, 1500>>
    [] model = "claude-3-haiku-20240307"    -> <<25, 125>>
    [] OTHER                                -> <<100, 200>>

\* x / 100 rounded to the nearest integer, a tie going to the even one.
RoundHundredth(x) ==
  LET q == x \div 100
      r == x % 100
  IN  IF r > 50 \/ (r = 50 /\ q % 2 = 1) THEN q + 1 ELSE q

\* The estimated cost in 1e-6 dollars (the source rounds to 6 decimals).
_estimate_cost(model, tokens_in, tokens_out) ==
  LET rates == pricing(model)
  IN  RoundHundredth(tokens_in * rates[1] + tokens_out * rates[2])

\* What the provider does with one invocation: it raises (msg), or answers
\* with content and, when usage is "given", with usage metadata; elapsed is
\* the time the call took, in milliseconds.
Reply(content, usage, tin, tout, elapsed) ==
  [raises |-> FALSE, msg |-> <<>>, content |-> content, usage |-> usage,
   input_tokens |-> tin, output_tokens |-> tout, elapsed |-> elapsed]

Failure(msg, elapsed) ==
  [raises |-> TRUE, msg |-> msg, content |-> <<>>, usage |-> "missing",
   input_tokens |-> 0, output_tokens |-> 0, elapsed |-> elapsed]

\* A call's outcome: the dictionary it returns, or an exception it lets
\* through to its caller.
Return(r) ==
  [raised |-> FALSE, ret |-> r]

Raise(msg) ==
  [raised |-> TRUE,
   ret |-> [output |-> <<>>, has_error |-> FALSE, error |-> msg,
            tokens_input |-> 0, tokens_output |-> 0, cost_estimate |-> 0,
            latency_ms |-> 0, model |-> ""]]

\* The response without a client (llm is None).
DemoResult(system_prompt, user_prompt, model, resp) ==
  [output |-> DemoOutput(system_prompt, user_prompt),
   has_error |-> FALSE, error |-> <<>>,
   tokens_input |-> WordCount(user_prompt), tokens_output |-> 50,
   cost_estimate |-> 0, latency_ms |-> resp.elapsed, model |-> model]

\* The body of the try block on an answer of the provider.
AnswerResult(user_prompt, model, resp) ==
  LET tokens_in  == IF resp.usage = "given" THEN resp.input_tokens
                    ELSE WordCount(user_prompt)
      tokens_out == IF resp.usage = "given" THEN resp.output_tokens
                    ELSE WordCount(resp.content)
  IN  [output |-> resp.content, has_error |-> FALSE, error |-> <<>>,
       tokens_input |-> tokens_in, tokens_output |-> tokens_out,
       cost_estimate |-> _estimate_cost(model, tokens_in, tokens_out),
       latency_ms |-> resp.elapsed, model |-> model]

\* The except clause: the failure becomes a result with the error key.
ErrorResult(model, resp) ==
  [output |-> <<>>, has_error |-> TRUE, error |-> resp.msg,
   tokens_input |-> 0, tokens_output |-> 0, cost_estimate |-> 0,
   latency_ms |-> resp.elapsed, model |-> model]

\* execute_prompt without its except clause: a failure of the provider
\* reaches the caller.
execute_prompt_uncaught(system_prompt, user_prompt, model, llm, resp) ==
  IF ~llm THEN Return(DemoResult(system_prompt, user_prompt, model, resp))
  ELSE IF resp.raises THEN Raise(resp.msg)
  ELSE Return(AnswerResult(user_prompt, model, resp))

\* execute_prompt, with llm telling whether get_llm returned a client and
\* resp what the provider does with the invocation.
execute_prompt(system_prompt, user_prompt, model, llm, resp) ==
  IF ~llm THEN Return(DemoResult(system_prompt, user_prompt, model, resp))
  ELSE IF resp.raises THEN Return(ErrorResult(model, resp))
  ELSE Return(AnswerResult(user_prompt, model, resp))

\* ------------------------------------------------------------------ state

VARIABLES
  sanIn,       \* the text given to the sanitizer
  sanOnce,     \* _sanitize_json(sanIn)
  sanTwice,    \* _sanitize_json(sanOnce)
  sanPc,       \* "start", "once", "twice"
  costIn,      \* the arguments given to _estimate_cost
  costOut,     \* <<>>, or <<c>> once _estimate_cost returned c
  pc,          \* where the request handler is: "idle", "service" (inside
               \* the service function), "returned", "raised", "created",
               \* "tpl_loaded", "tpl_saved", "done"
  req,         \* the validated data of the request being handled
  llm,         \* whether get_llm returns a client for the request's model
  calls,       \* the adapter calls made so far, in order
  loc,         \* the local variables of the running function
  result,      \* the dictionary the service function returned
  executions,  \* the PromptExecution table
  templates,   \* the PromptTemplate table: usage_count by id
  response,    \* the HTTP response
  test_runs,   \* the TestRun table
  test_results, \* the TestResult table
  workers,     \* the feature requests handled at the same time: where each
               \* is and what it holds
  rater        \* the rating request handled along with them

\* The variables of the runs of the two pure functions.
sanVars == <<sanIn, sanOnce, sanTwice, sanPc, costIn, costOut>>

testVars == <<test_runs, test_results>>

\* The variables of the requests that are handled at the same time.
conVars == <<workers, rater>>

reqVars == <<pc, req, llm, calls, loc, result, executions, templates, response>>

vars == <<sanIn, sanOnce, sanTwice, sanPc, costIn, costOut,
          pc, req, llm, calls, loc, result, executions, templates, response,
          test_runs, test_results, workers, rater>>

NoReq == [view |-> "none", category |-> "none"]

NoLoc == [at |-> "none"]

NoResult == [output |-> <<>>, has_error |-> FALSE, error |-> <<>>,
             tokens_input |-> 0, tokens_output |-> 0, cost_estimate |-> 0,
             latency_ms |-> 0, model |-> ""]

NoResponse == [status |-> 0, execution_id |-> 0]

NoRater == [pc |-> "off"]

\* The templates that exist when the server starts.
TemplateIds == {"t1"}

\* No request is being handled, nothing has been recorded.
InitRequests ==
  /\ pc = "idle"
  /\ req = NoReq
  /\ llm = FALSE
  /\ calls = <<>>
  /\ loc = NoLoc
  /\ result = NoResult
  /\ executions = <<>>
  /\ templates = [t \in TemplateIds |-> 0]
  /\ response = NoResponse
  /\ test_runs = <<>>
  /\ test_results = <<>>

\* A validation that lets every body through.
is_valid_always(data) ==
  TRUE

\* serializer.is_valid of SchemaEnforcerRequestSerializer and of
\* SelfCorrectingRequestSerializer: a CharField must be there and not blank
\* (criteria is not required), an IntegerField must lie in its range.
is_valid(data) ==
  /\ data.prompt_text # <<>>
  /\ data.input_text # <<>>
  /\ IF data.category = "schema_enforcer"
       THEN /\ data.schema_text # <<>>
            /\ data.max_retries \in 1..5
       ELSE /\ data.max_rounds \in 1..5
            /\ data.threshold \in 1..10

\* ------------------------------------------------------------ sanitizer run


\* Every text of at most MaxTextLen characters over the characters the
\* three rewrites look at, and one they do not.
SanitizeInputs ==
  UNION {[1..k -> {Tick, " ", ",", "}", "]", "x"}] : k \in 0..MaxTextLen}

\* A model's answer in a json fence, with Python-style literals and a
\* trailing comma.
FencedAnswer ==
  <<Tick,Tick,Tick,"j","s","o","n","\n","{","\"","a","\"",":"," ","T","R",
        "U","E",","," ","\"","b","\"",":"," ","N","U","L","L",",","}","\n",
        Tick,Tick,Tick>>

\* The texts of at most MaxWords of the words the sanitizer's expressions
\* are written for (a code fence, its language tag, a line break, a space, a
\* colon, literals in upper and mixed case, a letter, a comma and a closing
\* brace), and the fenced answer.
SanitizeTexts ==
  LET words == {Fence, <<"j","s","o","n">>, <<"\n">>, <<" ">>, <<":">>, <<"N","U","L","L">>,
                <<"T","r","u","e">>, <<"x">>, <<",">>, <<"}">>}
      RECURSIVE Concats(_)
      Concats(n) ==
        IF n = 0 THEN {<<>>}
        ELSE {t \o w : t \in Concats(n - 1), w \in words}
  IN  UNION {Concats(n) : n \in 0..MaxWords} \cup {FencedAnswer}

NoCost == [model |-> "", tokens_in |-> 0, tokens_out |-> 0]

InitSanitize ==
  /\ sanIn \in SanitizeInputs \cup SanitizeTexts
  /\ sanOnce = <<>>
  /\ sanTwice = <<>>
  /\ sanPc = "start"
  /\ costIn = NoCost
  /\ costOut = <<>>
  /\ workers = <<>>
  /\ rater = NoRater
  /\ InitRequests

SanitizeOnce ==
  /\ sanPc = "start"
  /\ sanOnce' = _sanitize_json(sanIn)
  /\ sanPc' = "once"
  /\ UNCHANGED <<sanIn, sanTwice, costIn, costOut>>
  /\ UNCHANGED <<reqVars, testVars, conVars>>

SanitizeTwice ==
  /\ sanPc = "once"
  /\ sanTwice' = _sanitize_json(sanOnce)
  /\ sanPc' = "twice"
  /\ UNCHANGED <<sanIn, sanOnce, costIn, costOut>>
  /\ UNCHANGED <<reqVars, testVars, conVars>>

NextSanitize ==
  \/ SanitizeOnce
  \/ SanitizeTwice

SpecSanitize == InitSanitize /\ [][NextSanitize]_vars

\* ------------------------------------------------------------ cost run

\* The arguments of _estimate_cost: the models of the pricing table and one
\* that is not in it, with small token counts and 1000.
CostInputs ==
  [model : {"gpt-4o-mini", "gpt-4o", "gpt-4", "claude-3-5-sonnet-20241022",
            "claude-3-haiku-20240307", "my-model"},
   tokens_in : (0..MaxTokens) \cup {1000},
   tokens_out : (0..MaxTokens) \cup {1000}]

InitCost ==
  /\ costIn \in CostInputs
  /\ costOut = <<>>
  /\ sanIn = <<>>
  /\ sanOnce = <<>>
  /\ sanTwice = <<>>
  /\ sanPc = "start"
  /\ workers = <<>>
  /\ rater = NoRater
  /\ InitRequests

EstimateCost ==
  /\ costOut = <<>>
  /\ costOut' = <<_estimate_cost(costIn.model, costIn.tokens_in,
                                 costIn.tokens_out)>>
  /\ UNCHANGED <<sanIn, sanOnce, sanTwice, sanPc, costIn>>
  /\ UNCHANGED <<reqVars, testVars, conVars>>

SpecCost == InitCost /\ [][EstimateCost]_vars

\* ------------------------------------------------------------ calls

\* The invocations the provider may answer with: one of replies with a
\* client, none without (the demo response takes no measurable time).
Invocations(replies) ==
  IF llm THEN replies ELSE {Reply(<<>>, "missing", 0, 0, 0)}

\* The log of adapter calls after one more call.
Logged(stage, system_prompt, user_prompt, resp, out) ==
  Append(calls, [stage |-> stage, system_prompt |-> system_prompt,
                 user_prompt |-> user_prompt, resp |-> resp,
                 raised |-> out.raised, result |-> out.ret])

\* Totals that leave out the latency of the call.
AccumulateTokensAndCost(l, r) ==
  [l EXCEPT !.total_tokens = @ + r.tokens_input + r.tokens_output,
            !.total_cost = @ + r.cost_estimate]

\* total_tokens, total_cost and total_latency after a call that returned r.
Accumulate(l, r) ==
  [l EXCEPT !.total_tokens = @ + r.tokens_input + r.tokens_output,
            !.total_cost = @ + r.cost_estimate,
            !.total_latency = @ + r.latency_ms]

\* The dictionary a pipeline returns: its output and its totals.
PipelineResult(output, l, model) ==
  [output |-> output, has_error |-> FALSE, error |-> <<>>,
   tokens_input |-> l.total_tokens, tokens_output |-> 0,
   cost_estimate |-> l.total_cost, latency_ms |-> l.total_latency,
   model |-> model]

ConnectionError ==
  <<"C","o","n","n","e","c","t","i","o","n"," ","e","r","r","o","r",".">>

\* ------------------------------------------------------------ execute_self_correcting

ADVANCED_PROMPTS_self_correct_critic ==
  <<"Y","o","u"," ","a","r","e"," ","a"," ","c","r","i","t","i","c","a",
        "l"," ","r","e","v","i","e","w","e","r","."," ","A","n","a","l","y",
        "z","e"," ","t","h","e"," ","f","o","l","l","o","w","i","n","g"," ",
        "A","I","-","g","e","n","e","r","a","t","e","d"," ","r","e","s","p",
        "o","n","s","e"," ","a","n","d"," ","i","d","e","n","t","i","f","y",
        " ","i","s","s","u","e","s",".","\n","\n","E","v","a","l","u">>

ADVANCED_PROMPTS_self_correct_reviser ==
  <<"Y","o","u"," ","a","r","e"," ","a"," ","r","e","v","i","s","i","o",
        "n"," ","e","x","p","e","r","t","."," ","G","i","v","e","n"," ","t",
        "h","e"," ","o","r","i","g","i","n","a","l"," ","r","e","s","p","o",
        "n","s","e"," ","a","n","d"," ","t","h","e"," ","c","r","i","t","i",
        "c","'","s"," ","f","e","e","d","b","a","c","k",","," ","p","r","o",
        "d","u","c","e"," ","a","n"," ","i","m","p","r","o","v","e">>

critic_input(prompt_text, current_output, criteria) ==
  <<"T","a","s","k",":"," ">> \o prompt_text \o <<"\n","\n","R","e","s","p","o","n","s","e",
                                  " ","t","o"," ","e","v","a","l","u","a","t",
                                  "e",":","\n","-","-","-","\n">>
    \o current_output \o <<"\n","-","-","-">>
    \o (IF criteria # <<>>
          THEN <<"\n","\n","A","d","d","i","t","i","o","n","a","l"," ","q",
                 "u","a","l","i","t","y"," ","c","r","i","t","e","r","i","a",
                 ":","\n">> \o criteria
          ELSE <<>>)

\* A reviser prompt that leaves the critic's feedback out.
reviser_input_without_feedback(prompt_text, current_output, critique) ==
  <<"O","r","i","g","i","n","a","l"," ","t","a","s","k",":"," ">> \o prompt_text
    \o <<"\n","\n","C","u","r","r","e","n","t"," ","r","e","s","p","o","n",
         "s","e",":","\n","-","-","-","\n">> \o current_output \o <<"\n","-","-","-">>

reviser_input(prompt_text, current_output, critique) ==
  <<"O","r","i","g","i","n","a","l"," ","t","a","s","k",":"," ">> \o prompt_text
    \o <<"\n","\n","C","u","r","r","e","n","t"," ","r","e","s","p","o","n",
         "s","e",":","\n","-","-","-","\n">> \o current_output
    \o <<"\n","-","-","-","\n","\n","C","r","i","t","i","c","'","s"," ","f",
         "e","e","d","b","a","c","k",":","\n","-","-","-","\n">> \o critique \o <<"\n","-","-","-">>

\* The check of the threshold on the critique as the model wrote it, without
\* sanitizing.
PassesThresholdUnsanitized(critique) ==
  LET p == json_loads(critique)
  IN  /\ p.ok
      /\ p.v.t = "obj"
      /\ Truthy(DictGet(p.v, <<"p","a","s","s","e","s","_","t","h","r","e",
                               "s","h","o","l","d">>, JBool(FALSE)))

\* Whether the loop breaks on this critique: it parses, after sanitizing, to
\* a dictionary whose passes_threshold is true in Python's sense.
PassesThreshold(critique) ==
  LET p == json_loads(_sanitize_json(critique))
  IN  /\ p.ok
      /\ p.v.t = "obj"
      /\ Truthy(DictGet(p.v, <<"p","a","s","s","e","s","_","t","h","r","e",
                               "s","h","o","l","d">>, JBool(FALSE)))

\* What the model may answer to a generation or revision prompt.
DraftReplies ==
  {Reply(<<"D","r","a","f","t"," ","o","n","e",".">>, "given", 20, 10, 120),
   Failure(ConnectionError, 30)}

\* What the model may answer to the critic's prompt.
CritiqueReplies ==
  {Reply(<<Tick,Tick,Tick,"j","s","o","n","\n","{","\"","q","u","a","l","i",
           "t","y","_","s","c","o","r","e","\"",":"," ","8",","," ","\"","p",
           "a","s","s","e","s","_","t","h","r","e","s","h","o","l","d","\"",
           ":"," ","T","R","U","E",",","}","\n",Tick,Tick,Tick>>,
         "given", 40, 20, 70),
   Reply(<<"{","\"","q","u","a","l","i","t","y","_","s","c","o","r","e","\"",
           ":"," ","3",","," ","\"","p","a","s","s","e","s","_","t","h","r",
           "e","s","h","o","l","d","\"",":"," ","f","a","l","s","e","}">>,
         "given", 40, 10, 60),
   Reply(<<"L","o","o","k","s"," ","f","i","n","e",".">>, "missing", 0, 0, 50),
   Reply(<<"[","t","r","u","e","]">>, "given", 40, 0, 40),
   Failure(ConnectionError, 30)}

\* The bodies of requests to the self-correcting endpoint: max_rounds in and
\* out of the range the serializer allows, prompt_text present or missing
\* (<<>> stands for a missing or blank field), threshold at its default and
\* above it.
SelfCorrectingBodies ==
  {[view |-> "advanced", category |-> "self_correcting",
    prompt_text |-> prompt_text, input_text |-> <<"X"," ","i","s">>,
    criteria |-> criteria, max_rounds |-> max_rounds,
    threshold |-> threshold, model |-> "gpt-4o-mini"] :
     prompt_text \in {<<>>, <<"E","x","p","l","a","i","n"," ","X">>},
     criteria \in {<<>>, <<"B","e"," ","b","r","i","e","f">>},
     max_rounds \in (0..MaxRounds) \cup {6},
     threshold \in {7, 9}}

ReceiveSelfCorrecting ==
  /\ pc = "idle"
  /\ \E data \in SelfCorrectingBodies :
       /\ is_valid(data)
       /\ req' = data
  /\ llm' \in BOOLEAN
  /\ loc' = [at |-> "generate", i |-> 0, rounds |-> <<>>,
             current_output |-> <<>>, critique |-> <<>>,
             total_tokens |-> 0, total_cost |-> 0, total_latency |-> 0]
  /\ pc' = "service"
  /\ UNCHANGED <<calls, result, executions, templates, response>>
  /\ UNCHANGED <<sanVars, testVars, conVars>>

\* Round 1: the initial response.
SelfCorrectGenerate ==
  /\ pc = "service"
  /\ req.category = "self_correcting"
  /\ loc.at = "generate"
  /\ \E resp \in Invocations(DraftReplies) :
       LET out == execute_prompt(req.prompt_text, req.input_text, req.model,
                                 llm, resp)
           r   == out.ret
       IN  /\ calls' = Logged("generation", req.prompt_text, req.input_text,
                              resp, out)
           /\ IF out.raised
                THEN pc' = "raised" /\ UNCHANGED loc
                ELSE /\ pc' = pc
                     /\ loc' = [Accumulate(loc, r) EXCEPT
                          !.current_output = r.output,
                          !.rounds = Append(@, [round |-> 1,
                                                type |-> "generation",
                                                output |-> r.output]),
                          !.at = IF req.max_rounds > 0 THEN "critique"
                                 ELSE "finish"]
  /\ UNCHANGED <<req, llm, result, executions, templates, response>>
  /\ UNCHANGED <<sanVars, testVars, conVars>>

\* One critique of the loop, and the check of the threshold.
SelfCorrectCritique ==
  /\ pc = "service"
  /\ req.category = "self_correcting"
  /\ loc.at = "critique"
  /\ \E resp \in Invocations(CritiqueReplies) :
       LET user == critic_input(req.prompt_text, loc.current_output,
                                req.criteria)
           out  == execute_prompt(ADVANCED_PROMPTS_self_correct_critic, user,
                                  req.model, llm, resp)
           r    == out.ret
       IN  /\ calls' = Logged("critique", ADVANCED_PROMPTS_self_correct_critic,
                              user, resp, out)
           /\ IF out.raised
                THEN pc' = "raised" /\ UNCHANGED loc
                ELSE /\ pc' = pc
                     /\ loc' = [Accumulate(loc, r) EXCEPT
                          !.critique = r.output,
                          !.rounds = Append(@, [round |-> loc.i + 1,
                                                type |-> "critique",
                                                output |-> r.output]),
                          !.at = IF PassesThreshold(r.output) THEN "finish"
                                 ELSE "revise"]
  /\ UNCHANGED <<req, llm, result, executions, templates, response>>
  /\ UNCHANGED <<sanVars, testVars, conVars>>

\* One revision of the loop, and the step to the next round.
SelfCorrectRevise ==
  /\ pc = "service"
  /\ req.category = "self_correcting"
  /\ loc.at = "revise"
  /\ \E resp \in Invocations(DraftReplies) :
       LET user == reviser_input(req.prompt_text, loc.current_output,
                                 loc.critique)
           out  == execute_prompt(ADVANCED_PROMPTS_self_correct_reviser, user,
                                  req.model, llm, resp)
           r    == out.ret
       IN  /\ calls' = Logged("revision", ADVANCED_PROMPTS_self_correct_reviser,
                              user, resp, out)
           /\ IF out.raised
                THEN pc' = "raised" /\ UNCHANGED loc
                ELSE /\ pc' = pc
                     /\ loc' = [Accumulate(loc, r) EXCEPT
                          !.current_output = r.output,
                          !.rounds = Append(@, [round |-> loc.i + 1,
                                                type |-> "revision",
                                                output |-> r.output]),
                          !.i = @ + 1,
                          !.at = IF loc.i + 1 < req.max_rounds THEN "critique"
                                 ELSE "finish"]
  /\ UNCHANGED <<req, llm, result, executions, templates, response>>
  /\ UNCHANGED <<sanVars, testVars, conVars>>

\* The number of entries of a list of rounds or stages that have a type.
CountType(rounds, type) ==
  Cardinality({k \in DOMAIN rounds : rounds[k].type = type})

\* The dictionary returned; output is the dictionary json.dumps serialises.
SelfCorrectReturn ==
  /\ pc = "service"
  /\ req.category = "self_correcting"
  /\ loc.at = "finish"
  /\ result' = PipelineResult(
       [final_output |-> loc.current_output,
        rounds |-> loc.rounds,
        total_rounds |-> CountType(loc.rounds, "critique")],
       loc, req.model)
  /\ pc' = "returned"
  /\ UNCHANGED <<req, llm, calls, loc, executions, templates, response>>
  /\ UNCHANGED <<sanVars, testVars, conVars>>

\* ------------------------------------------------------------ enforce_schema

ADVANCED_PROMPTS_schema_enforcer ==
  <<"Y","o","u"," ","a","r","e"," ","a"," ","p","r","e","c","i","s","e",
        " ","d","a","t","a"," ","e","x","t","r","a","c","t","i","o","n"," ",
        "a","s","s","i","s","t","a","n","t","."," ","Y","o","u"," ","M","U",
        "S","T"," ","r","e","t","u","r","n"," ","o","u","t","p","u","t"," ",
        "t","h","a","t"," ","s","t","r","i","c","t","l","y"," ","c","o","n",
        "f","o","r","m","s"," ","t","o"," ","t","h","e"," ","J","S","O","N",
        " ","s","c","h","e","m","a"," ","p","r","o","v","i","d","e","d",".",
        " ","F","o","l","l","o","w"," ","t","h","e","s","e"," ","r","u","l",
        "e","s",":","\n","1","."," ","R","e","t","u","r","n"," ","O","N","L",
        "Y"," ","v","a","l","i","d"," ","J","S","O","N"," ","m","a","t","c",
        "h","i","n","g"," ","t","h","e"," ","s","c","h","e","m","a"," ","e",
        "x","a","c","t","l","y","\n","2","."," ","U","s","e"," ","t","h","e",
        " ","e","x","a","c","t"," ","f","i","e","l","d"," ","n","a","m","e",
        "s"," ","f","r","o","m"," ","t","h","e"," ","s","c","h","e","m","a",
        "\n","3","."," ","R","e","s","p","e","c","t"," ","a","l","l"," ","t",
        "y","p","e"," ","c","o","n","s","t","r","a","i","n","t","s"," ","(",
        "s","t","r","i","n","g",","," ","n","u","m","b","e","r",","," ","b",
        "o","o","l","e","a","n",","," ","a","r","r","a","y",")","\n","4",".",
        " ","I","n","c","l","u","d","e"," ","a","l","l"," ","r","e","q","u",
        "i","r","e","d"," ","f","i","e","l","d","s","\n","5","."," ","I","f",
        " ","a"," ","f","i","e","l","d"," ","v","a","l","u","e"," ","c","a",
        "n","n","o","t"," ","b","e"," ","d","e","t","e","r","m","i","n","e",
        "d",","," ","u","s","e"," ","n","u","l","l","\n","6","."," ","D","o",
        " ","N","O","T"," ","i","n","c","l","u","d","e"," ","a","n","y"," ",
        "t","e","x","t"," ","o","u","t","s","i","d","e"," ","t","h","e"," ",
        "J","S","O","N"," ","o","b","j","e","c","t","\n">>

\* str(e) of a json.JSONDecodeError; the position it reports is left out.
DecodeErrorText ==
  <<"E","x","p","e","c","t","i","n","g"," ","v","a","l","u","e">>

schema_system(schema_text) ==
  ADVANCED_PROMPTS_schema_enforcer
    \o <<"\n","\n","R","e","q","u","i","r","e","d"," ","J","S","O","N"," ",
         "S","c","h","e","m","a",":","\n">> \o schema_text

schema_user(prompt_text, input_text, attempt, validation_errors) ==
  IF attempt = 0
    THEN prompt_text \o <<"\n","\n","I","n","p","u","t",":","\n">> \o input_text
    ELSE prompt_text \o <<"\n","\n","I","n","p","u","t",":","\n">> \o input_text
           \o <<"\n","\n","I","M","P","O","R","T","A","N","T",":"," ","Y","o",
                "u","r"," ","p","r","e","v","i","o","u","s"," ","a","t","t",
                "e","m","p","t"," ","w","a","s"," ","i","n","v","a","l","i",
                "d","."," ","E","r","r","o","r","s",":","\n">>
           \o validation_errors
           \o <<"\n","F","i","x"," ","t","h","e","s","e"," ","e","r","r","o",
                "r","s"," ","a","n","d"," ","r","e","t","u","r","n"," ","O",
                "N","L","Y"," ","v","a","l","i","d"," ","J","S","O","N"," ",
                "m","a","t","c","h","i","n","g"," ","t","h","e"," ","s","c",
                "h","e","m","a",".">>

\* The validation of one output: "valid" when the text between the first
\* opening and the last closing brace (or bracket, when there is no opening
\* brace) parses, "invalid" when it does not, "none" when there is no such
\* text, in which case the attempt is not recorded.
SchemaSpan(sanitized) ==
  LET brace == Find(sanitized, "{")
      start == IF brace < 0 THEN Find(sanitized, "[") ELSE brace
      end   == IF brace < 0 THEN RFind(sanitized, "]") ELSE RFind(sanitized, "}")
  IN  IF start >= 0 /\ end > start
        THEN IF json_loads(SubSeq(sanitized, start + 1, end + 1)).ok
               THEN "valid" ELSE "invalid"
        ELSE "none"

SchemaValidate(output) ==
  SchemaSpan(_sanitize_json(output))

\* The local variables after an attempt that returned r, validated as v.
SchemaAttempted(l, r, v, max_retries) ==
  [l EXCEPT
     !.result = <<r>>,
     !.attempt = @ + 1,
     !.at = IF v = "valid" \/ l.attempt + 1 >= max_retries
              THEN "finish" ELSE "attempt",
     !.best_output = IF v = "none" THEN @ ELSE <<r.output>>,
     !.validation_errors = IF v = "invalid" THEN <<DecodeErrorText>> ELSE @,
     !.all_attempts = IF v = "none" THEN @
                      ELSE Append(@, [attempt |-> l.attempt + 1,
                                      valid |-> v = "valid"])]

\* What the model may answer to the extraction prompt.
SchemaReplies ==
  {Reply(<<"H","e","r","e",":"," ","{","\"","a","\"",":"," ","1",",","}">>, "given", 20, 10, 80),
   Reply(<<"[","{","\"","a","\"",":"," ","1","}",","," ","{","\"","b","\"",
           ":"," ","2","}","]">>, "given", 20, 10, 70),
   Reply(<<"{","\"","a","\"",":"," ","}">>, "given", 20, 10, 60),
   Reply(<<"h","e","l","l","o">>, "missing", 0, 0, 50),
   Failure(ConnectionError, 30)}

\* The bodies of requests to the schema endpoint: max_retries in and out of
\* the range the serializer allows, schema_text present or missing.
SchemaEnforcerBodies ==
  {[view |-> "advanced", category |-> "schema_enforcer",
    prompt_text |-> <<"E","x","t","r","a","c","t">>, schema_text |-> schema_text,
    input_text |-> <<"a"," ","i","s"," ","1">>, max_retries |-> max_retries,
    model |-> "gpt-4o-mini"] :
     schema_text \in {<<>>, <<"{","}">>},
     max_retries \in (0..MaxRetries) \cup {6}}

ReceiveSchemaEnforcer ==
  /\ pc = "idle"
  /\ \E data \in SchemaEnforcerBodies :
       /\ is_valid(data)
       /\ req' = data
  /\ llm' \in BOOLEAN
  /\ loc' = [at |-> "attempt", attempt |-> 0, best_output |-> <<>>,
             all_attempts |-> <<>>, validation_errors |-> <<>>,
             result |-> <<>>]
  /\ pc' = "service"
  /\ UNCHANGED <<calls, result, executions, templates, response>>
  /\ UNCHANGED <<sanVars, testVars, conVars>>

\* One iteration of the loop.  best_output, validation_errors and result
\* hold <<>> while None or unbound, <<x>> once assigned x.  A retry reads
\* validation_errors, and raises UnboundLocalError when no earlier attempt
\* assigned it.
SchemaAttempt ==
  /\ pc = "service"
  /\ req.category = "schema_enforcer"
  /\ loc.at = "attempt"
  /\ IF loc.attempt > 0 /\ loc.validation_errors = <<>>
       THEN pc' = "raised" /\ UNCHANGED <<calls, loc>>
       ELSE \E resp \in Invocations(SchemaReplies) :
         LET system == schema_system(req.schema_text)
             user   == schema_user(req.prompt_text, req.input_text, loc.attempt,
                                   IF loc.attempt = 0 THEN <<>>
                                   ELSE loc.validation_errors[1])
             out    == execute_prompt(system, user, req.model, llm, resp)
         IN  /\ calls' = Logged("attempt", system, user, resp, out)
             /\ IF out.raised
                  THEN pc' = "raised" /\ UNCHANGED loc
                  ELSE /\ pc' = pc
                       /\ loc' = SchemaAttempted(loc, out.ret,
                                                 SchemaValidate(out.ret.output),
                                                 req.max_retries)
  /\ UNCHANGED <<req, llm, result, executions, templates, response>>
  /\ UNCHANGED <<sanVars, testVars, conVars>>

\* The dictionary returned: the metrics are those of the last call.
SchemaReturn ==
  /\ pc = "service"
  /\ req.category = "schema_enforcer"
  /\ loc.at = "finish"
  /\ LET last == loc.result[1]
     IN  result' =
           [output |-> [result |-> loc.best_output,
                        attempts |-> loc.all_attempts,
                        total_attempts |-> Len(loc.all_attempts),
                        success |-> IF loc.all_attempts # <<>>
                                      THEN loc.all_attempts[Len(loc.all_attempts)].valid
                                      ELSE FALSE],
            has_error |-> FALSE, error |-> <<>>,
            tokens_input |-> last.tokens_input,
            tokens_output |-> last.tokens_output,
            cost_estimate |-> last.cost_estimate,
            latency_ms |-> last.latency_ms, model |-> req.model]
  /\ pc' = "returned"
  /\ UNCHANGED <<req, llm, calls, loc, executions, templates, response>>
  /\ UNCHANGED <<sanVars, testVars, conVars>>

\* ------------------------------------------------------------ compare_prompt_outputs

ADVANCED_PROMPTS_ab_judge ==
  <<"Y","o","u"," ","a","r","e"," ","a","n"," ","i","m","p","a","r","t",
        "i","a","l"," ","e","v","a","l","u","a","t","o","r"," ","c","o","m",
        "p","a","r","i","n","g"," ","t","w","o"," ","A","I"," ","o","u","t",
        "p","u","t","s"," ","f","o","r"," ","t","h","e"," ","s","a","m","e",
        " ","t","a","s","k",".","\n","\n","S","c","o","r","e"," ","e","a","c",
        "h"," ","o","u","t","p","u","t"," ","o","n"," ","t","h","e">>

judge_input(test_input, output_a, output_b) ==
  <<"T","a","s","k"," ","i","n","p","u","t",":","\n">> \o test_input \o <<"\n","\n","-","-","-"," ","O","u","t",
                                        "p","u","t"," ","A"," ","-","-","-",
                                        "\n">> \o output_a
    \o <<"\n","\n","-","-","-"," ","O","u","t","p","u","t"," ","B"," ","-",
         "-","-","\n">> \o output_b

ReceiveCompare ==
  /\ pc = "idle"
  /\ req' = [view |-> "advanced", category |-> "prompt_compare",
             prompt_a |-> <<"B","e"," ","s","h","o","r","t">>, prompt_b |-> <<"B","e"," ","l","o","n","g">>,
             test_input |-> <<"H","i">>, model |-> "gpt-4o-mini"]
  /\ llm' \in BOOLEAN
  /\ loc' = [at |-> "a", results |-> <<>>]
  /\ pc' = "service"
  /\ UNCHANGED <<calls, result, executions, templates, response>>
  /\ UNCHANGED <<sanVars, testVars, conVars>>

\* The run of one of the two prompts on the test input.
CompareRun ==
  /\ pc = "service"
  /\ req.category = "prompt_compare"
  /\ loc.at \in {"a", "b"}
  /\ \E resp \in Invocations(DraftReplies) :
       LET system == IF loc.at = "a" THEN req.prompt_a ELSE req.prompt_b
           out    == execute_prompt(system, req.test_input, req.model, llm, resp)
       IN  /\ calls' = Logged(loc.at, system, req.test_input, resp, out)
           /\ IF out.raised
                THEN pc' = "raised" /\ UNCHANGED loc
                ELSE /\ pc' = pc
                     /\ loc' = [loc EXCEPT
                          !.results = Append(@, out.ret),
                          !.at = IF loc.at = "a" THEN "b" ELSE "judge"]
  /\ UNCHANGED <<req, llm, result, executions, templates, response>>
  /\ UNCHANGED <<sanVars, testVars, conVars>>

\* The judge's call and the dictionary returned.
CompareJudge ==
  /\ pc = "service"
  /\ req.category = "prompt_compare"
  /\ loc.at = "judge"
  /\ \E resp \in Invocations(DraftReplies) :
       LET a    == loc.results[1]
           b    == loc.results[2]
           user == judge_input(req.test_input, a.output, b.output)
           out  == execute_prompt(ADVANCED_PROMPTS_ab_judge, user, req.model,
                                  llm, resp)
           j    == out.ret
       IN  /\ calls' = Logged("judge", ADVANCED_PROMPTS_ab_judge, user, resp, out)
           /\ IF out.raised
                THEN pc' = "raised" /\ UNCHANGED result
                ELSE /\ pc' = "returned"
                     /\ result' =
                          [output |-> j.output, has_error |-> FALSE,
                           error |-> <<>>,
                           tokens_input |->
                             a.tokens_input + a.tokens_output + b.tokens_input
                               + b.tokens_output + j.tokens_input + j.tokens_output,
                           tokens_output |-> 0,
                           cost_estimate |->
                             a.cost_estimate + b.cost_estimate + j.cost_estimate,
                           latency_ms |-> a.latency_ms + b.latency_ms + j.latency_ms,
                           model |-> req.model]
  /\ UNCHANGED <<req, llm, loc, executions, templates, response>>
  /\ UNCHANGED <<sanVars, testVars, conVars>>

\* ------------------------------------------------------------ execute_quality_pipeline

ADVANCED_PROMPTS_quality_gate_safety ==
  <<"Y","o","u"," ","a","r","e"," ","a"," ","c","o","n","t","e","n","t",
        " ","s","a","f","e","t","y"," ","a","n","d"," ","p","o","l","i","c",
        "y"," ","r","e","v","i","e","w","e","r","."," ","A","n","a","l","y",
        "z","e"," ","t","h","e"," ","f","o","l","l","o","w","i","n","g"," ",
        "c","o","n","t","e","n","t"," ","f","o","r",":","\n","1","."," ","H",
        "a","r","m","f","u","l"," ","o","r"," ","o","f","f","e","n">>

\* ADVANCED_PROMPTS['quality_gate_reviser'].format(issues=issues)
quality_gate_reviser(issues) ==
  <<"Y","o","u"," ","a","r","e"," ","a"," ","c","o","n","t","e","n","t",
        " ","e","d","i","t","o","r","."," ","T","h","e"," ","f","o","l","l",
        "o","w","i","n","g"," ","c","o","n","t","e","n","t"," ","f","a","i",
        "l","e","d"," ","a"," ","q","u","a","l","i","t","y"," ","r","e","v",
        "i","e","w","."," ","R","e","v","i","s","e"," ","i","t"," ","t","o",
        " ","a","d","d","r","e","s","s"," ","A","L","L"," ","i","d","e","n",
        "t","i","f","i","e","d"," ","i","s","s","u","e","s"," ","w","h","i",
        "l","e"," ","p","r","e","s","e","r","v","i","n","g"," ","t","h","e",
        " ","o","r","i","g","i","n","a","l"," ","m","e","a","n","i","n","g",
        " ","a","n","d"," ","i","n","t","e","n","t",".","\n","\n","I","s","s",
        "u","e","s"," ","t","o"," ","f","i","x",":","\n">>
    \o issues
    \o <<"\n","\n","O","u","t","p","u","t"," ","O","N","L","Y"," ","t","h","e",
        " ","r","e","v","i","s","e","d"," ","c","o","n","t","e","n","t",",",
        " ","n","o"," ","m","e","t","a","-","c","o","m","m","e","n","t","a",
        "r","y",".">>

review_input(content, task_prompt) ==
  <<"C","o","n","t","e","n","t"," ","t","o"," ","r","e","v","i","e","w",
        ":","\n","-","-","-","\n">> \o content
    \o <<"\n","-","-","-","\n","\n","O","r","i","g","i","n","a","l"," ","t",
         "a","s","k",":"," ">> \o task_prompt

\* A check that never passes, whatever its output.
QualityPassedNever(check_output) ==
  [raised |-> FALSE, passed |-> JBool(FALSE)]

\* The value passed gets from the check's output: True when the output does
\* not parse, the member passed (True when there is none) of a parsed
\* dictionary; any other parsed value has no get, an AttributeError the
\* function does not catch.
QualityPassed(check_output) ==
  LET p == json_loads(_sanitize_json(check_output))
  IN  IF ~p.ok THEN [raised |-> FALSE, passed |-> JBool(TRUE)]
      ELSE IF p.v.t # "obj" THEN [raised |-> TRUE, passed |-> JBool(TRUE)]
      ELSE [raised |-> FALSE,
            passed |-> DictGet(p.v, <<"p","a","s","s","e","d">>, JBool(TRUE))]

\* The local variables after the check returned r and passed got q.passed.
QualityChecked(l, r, q) ==
  LET done == Append(l.stages,
                     [stage |-> "Safety & Quality Check",
                      status |-> IF Truthy(q.passed) THEN "passed" ELSE "failed",
                      output |-> r.output])
      skipped == <<[stage |-> "Reviser", status |-> "skipped",
                    output |-> <<"N","o","t"," ","n","e","e","d","e","d"," ",
                                 "-"," ","a","l","l"," ","c","h","e","c","k",
                                 "s"," ","p","a","s","s","e","d">>],
                   [stage |-> "Final Validation", status |-> "skipped",
                    output |-> <<"N","o","t"," ","n","e","e","d","e","d">>]>>
  IN  [Accumulate(l, r) EXCEPT
         !.check_output = r.output,
         !.passed = q.passed,
         !.stages = IF Truthy(q.passed) THEN done \o skipped ELSE done,
         !.at = IF Truthy(q.passed) THEN "finish" ELSE "revise"]

\* The check's outcome: an exception of the call or of the parsing, or the
\* local variables after it.
QualityOutcome(l, out, q) ==
  IF out.raised \/ q.raised THEN [raised |-> TRUE, loc |-> l]
  ELSE [raised |-> FALSE, loc |-> QualityChecked(l, out.ret, q)]

\* What the model may answer to the reviewer's prompt.
CheckReplies ==
  {Reply(<<"{","\"","p","a","s","s","e","d","\"",":"," ","t","r","u","e",",",
           " ","\"","c","h","e","c","k","s","\"",":"," ","[","]","}">>, "given", 40, 20, 70),
   Reply(<<"{","\"","p","a","s","s","e","d","\"",":"," ","F","A","L","S","E",
           ","," ","\"","r","e","v","i","s","i","o","n","_","n","e","e","d",
           "e","d","\"",":"," ","\"","t","o","n","e","\"","}">>,
         "given", 40, 20, 60),
   Reply(<<"L","o","o","k","s"," ","s","a","f","e",".">>, "missing", 0, 0, 50),
   Reply(<<"[","f","a","l","s","e","]">>, "given", 40, 0, 40),
   Reply(<<"{","\"","p","a","s","s","e","d","\"",":"," ","n","u","l","l","}">>, "given", 40, 10, 30),
   Failure(ConnectionError, 30)}

ReceiveQualityPipeline ==
  /\ pc = "idle"
  /\ req' = [view |-> "advanced", category |-> "quality_pipeline",
             task_prompt |-> <<"W","r","i","t","e"," ","a"," ","n","o","t",
                               "e">>, input_text |-> <<"t","o"," ","B","o","b">>,
             model |-> "gpt-4o-mini"]
  /\ llm' \in BOOLEAN
  /\ loc' = [at |-> "generate", content |-> <<>>, check_output |-> <<>>,
             passed |-> JBool(TRUE), stages |-> <<>>,
             total_tokens |-> 0, total_cost |-> 0, total_latency |-> 0]
  /\ pc' = "service"
  /\ UNCHANGED <<calls, result, executions, templates, response>>
  /\ UNCHANGED <<sanVars, testVars, conVars>>

\* Stage 1: the generator.
QualityGenerate ==
  /\ pc = "service"
  /\ req.category = "quality_pipeline"
  /\ loc.at = "generate"
  /\ \E resp \in Invocations(DraftReplies) :
       LET out == execute_prompt(req.task_prompt, req.input_text, req.model,
                                 llm, resp)
           r   == out.ret
       IN  /\ calls' = Logged("Generator", req.task_prompt, req.input_text,
                              resp, out)
           /\ IF out.raised
                THEN pc' = "raised" /\ UNCHANGED loc
                ELSE /\ pc' = pc
                     /\ loc' = [Accumulate(loc, r) EXCEPT
                          !.content = r.output,
                          !.stages = Append(@, [stage |-> "Generator",
                                                status |-> "completed",
                                                output |-> r.output]),
                          !.at = "check"]
  /\ UNCHANGED <<req, llm, result, executions, templates, response>>
  /\ UNCHANGED <<sanVars, testVars, conVars>>

\* Stage 2: the check, and the two skipped stages when it passed.
QualityCheck ==
  /\ pc = "service"
  /\ req.category = "quality_pipeline"
  /\ loc.at = "check"
  /\ \E resp \in Invocations(CheckReplies) :
       LET user == review_input(loc.content, req.task_prompt)
           out  == execute_prompt(ADVANCED_PROMPTS_quality_gate_safety, user,
                                  req.model, llm, resp)
           o    == QualityOutcome(loc, out, QualityPassed(out.ret.output))
       IN  /\ calls' = Logged("Safety & Quality Check",
                              ADVANCED_PROMPTS_quality_gate_safety, user, resp, out)
           /\ pc' = IF o.raised THEN "raised" ELSE pc
           /\ loc' = o.loc
  /\ UNCHANGED <<req, llm, result, executions, templates, response>>
  /\ UNCHANGED <<sanVars, testVars, conVars>>

\* Stage 3: the revision of content that did not pass.
QualityRevise ==
  /\ pc = "service"
  /\ req.category = "quality_pipeline"
  /\ loc.at = "revise"
  /\ \E resp \in Invocations(DraftReplies) :
       LET system == quality_gate_reviser(loc.check_output)
           out    == execute_prompt(system, loc.content, req.model, llm, resp)
           r      == out.ret
       IN  /\ calls' = Logged("Reviser", system, loc.content, resp, out)
           /\ IF out.raised
                THEN pc' = "raised" /\ UNCHANGED loc
                ELSE /\ pc' = pc
                     /\ loc' = [Accumulate(loc, r) EXCEPT
                          !.content = r.output,
                          !.stages = Append(@, [stage |-> "Reviser",
                                                status |-> "completed",
                                                output |-> r.output]),
                          !.at = "recheck"]
  /\ UNCHANGED <<req, llm, result, executions, templates, response>>
  /\ UNCHANGED <<sanVars, testVars, conVars>>

\* Stage 4: the second check, whose output is recorded and not read.
QualityRecheck ==
  /\ pc = "service"
  /\ req.category = "quality_pipeline"
  /\ loc.at = "recheck"
  /\ \E resp \in Invocations(CheckReplies) :
       LET user == review_input(loc.content, req.task_prompt)
           out  == execute_prompt(ADVANCED_PROMPTS_quality_gate_safety, user,
                                  req.model, llm, resp)
           r    == out.ret
       IN  /\ calls' = Logged("Final Validation",
                              ADVANCED_PROMPTS_quality_gate_safety, user, resp, out)
           /\ IF out.raised
                THEN pc' = "raised" /\ UNCHANGED loc
                ELSE /\ pc' = pc
                     /\ loc' = [Accumulate(loc, r) EXCEPT
                          !.stages = Append(@, [stage |-> "Final Validation",
                                                status |-> "completed",
                                                output |-> r.output]),
                          !.at = "finish"]
  /\ UNCHANGED <<req, llm, result, executions, templates, response>>
  /\ UNCHANGED <<sanVars, testVars, conVars>>

QualityReturn ==
  /\ pc = "service"
  /\ req.category = "quality_pipeline"
  /\ loc.at = "finish"
  /\ result' = PipelineResult(
       [final_content |-> loc.content, stages |-> loc.stages,
        all_passed |-> loc.passed],
       loc, req.model)
  /\ pc' = "returned"
  /\ UNCHANGED <<req, llm, calls, loc, executions, templates, response>>
  /\ UNCHANGED <<sanVars, testVars, conVars>>

\* ------------------------------------------------------------ execute_decomposition

ADVANCED_PROMPTS_decomposition_planner ==
  <<"Y","o","u"," ","a","r","e"," ","a"," ","t","a","s","k"," ","d","e",
        "c","o","m","p","o","s","i","t","i","o","n"," ","e","x","p","e","r",
        "t","."," ","B","r","e","a","k"," ","t","h","e"," ","f","o","l","l",
        "o","w","i","n","g"," ","c","o","m","p","l","e","x"," ","t","a","s",
        "k"," ","i","n","t","o"," ","c","l","e","a","r",","," ","s","e","q",
        "u","e","n","t","i","a","l"," ","s","u","b","-","t","a","s">>

ADVANCED_PROMPTS_decomposition_integrator ==
  <<"Y","o","u"," ","a","r","e"," ","a"," ","s","y","n","t","h","e","s",
        "i","s"," ","e","x","p","e","r","t","."," ","M","u","l","t","i","p",
        "l","e"," ","s","u","b","-","t","a","s","k","s"," ","h","a","v","e",
        " ","b","e","e","n"," ","c","o","m","p","l","e","t","e","d"," ","f",
        "o","r"," ","a"," ","l","a","r","g","e","r"," ","t","a","s","k",".",
        " ","I","n","t","e","g","r","a","t","e"," ","a","l","l"," ">>

SubTaskSystem ==
  <<"C","o","m","p","l","e","t","e"," ","t","h","e"," ","f","o","l","l",
        "o","w","i","n","g"," ","s","u","b","-","t","a","s","k"," ","t","h",
        "o","r","o","u","g","h","l","y"," ","a","n","d"," ","p","r","e","c",
        "i","s","e","l","y",".">>

\* str(v) of a parsed number, string, null or boolean.
PyStr(v) ==
  CASE v.t = "num"  -> IF v.n < 0 THEN <<"-">> \o Decimal(0 - v.n)
                       ELSE Decimal(v.n)
    [] v.t = "str"  -> v.s
    [] v.t = "null" -> <<"N","o","n","e">>
    [] v.t = "bool" -> IF v.b THEN <<"T","r","u","e">> ELSE <<"F","a","l","s","e">>

\* The texts of a list joined by sep.
RECURSIVE Join(_, _)
Join(texts, sep) ==
  IF texts = <<>> THEN <<>>
  ELSE IF Len(texts) = 1 THEN texts[1]
  ELSE texts[1] \o sep \o Join(Tail(texts), sep)

\* What iterating over a parsed value yields: the elements of a list, the
\* keys of a dictionary, the characters of a string.
IterItems(v) ==
  CASE v.t = "arr" -> v.kids
    [] v.t = "obj" -> [k \in DOMAIN v.kids |-> JStr(v.kids[k].k)]
    [] v.t = "str" -> [k \in DOMAIN v.s |-> JStr(<<v.s[k]>>)]
    [] OTHER       -> <<>>

Iterable(v) ==
  v.t \in {"arr", "obj", "str"}

\* sub_tasks after the plan is parsed: the member sub_tasks of a parsed
\* dictionary, no task for another parsed value, the whole task as one
\* sub-task when the plan does not parse.
PlannedSubTasks(plan_output, task_description) ==
  LET p == json_loads(_sanitize_json(plan_output))
  IN  IF ~p.ok
        THEN JArr(<<JObj(<<[k |-> <<"s","t","e","p">>, v |-> JNum(1)],
                          [k |-> <<"t","i","t","l","e">>, v |-> JStr(<<"F","u","l","l"," ","T","a","s",
                                              "k">>)],
                          [k |-> <<"i","n","s","t","r","u","c","t","i","o",
                                   "n">>,
                           v |-> JStr(task_description)]>>)>>)
      ELSE IF p.v.t = "obj" THEN DictGet(p.v, <<"s","u","b","_","t","a","s","k",
                                              "s">>, JArr(<<>>))
      ELSE JArr(<<>>)

\* The plan's outcome: an exception, or the local variables after the plan
\* returned r and gave the sub-tasks tasks.
PlanOutcome(l, out, tasks) ==
  IF out.raised \/ ~Iterable(tasks) THEN [raised |-> TRUE, loc |-> l]
  ELSE [raised |-> FALSE,
        loc |-> [Accumulate(l, out.ret) EXCEPT
                   !.sub_tasks = IterItems(tasks),
                   !.stages = Append(@, [stage |-> <<"P","l","a","n","n","i","n",
                                              "g">>,
                                         output |-> out.ret.output]),
                   !.at = IF IterItems(tasks) = <<>> THEN "integrate"
                          ELSE "step"]]

\* A plan of n sub-tasks, as the planner is asked to write it.
PlanItem(k) ==
  <<"{","\"","s","t","e","p","\"",":"," ">> \o Decimal(k) \o <<","," ","\"","t","i","t","l","e","\"",
                                      ":"," ","\"","T">> \o Decimal(k)
    \o <<"\"",","," ","\"","i","n","s","t","r","u","c","t","i","o","n","\"",
         ":"," ","\"","D","o"," ">> \o Decimal(k) \o <<"\"","}">>

PlanText(n) ==
  <<"{","\"","s","u","b","_","t","a","s","k","s","\"",":"," ","[">> \o Join([k \in 1..n |-> PlanItem(k)], <<","," ">>)
    \o <<"]","}">>

\* What the model may answer to the planner's prompt.
PlanReplies ==
  {Reply(PlanText(n), "given", 30, 40, 100) : n \in 0..MaxSubTasks}
    \cup {Reply(<<"F","i","r","s","t"," ","d","o"," ","A",".">>, "missing", 0, 0, 50),
          Reply(<<"{","\"","s","u","b","_","t","a","s","k","s","\"",":"," ",
                  "3","}">>, "given", 30, 10, 40),
          Reply(<<"{","\"","s","u","b","_","t","a","s","k","s","\"",":"," ",
                  "[","\"","x","\"","]","}">>, "given", 30, 10, 40),
          Failure(ConnectionError, 30)}

ReceiveDecomposition ==
  /\ pc = "idle"
  /\ req' = [view |-> "advanced", category |-> "decomposition",
             task_description |-> <<"P","l","a","n"," ","a"," ","t","r","i",
                                    "p">>, model |-> "gpt-4o-mini"]
  /\ llm' \in BOOLEAN
  /\ loc' = [at |-> "plan", sub_tasks |-> <<>>, sub_outputs |-> <<>>,
             stages |-> <<>>,
             total_tokens |-> 0, total_cost |-> 0, total_latency |-> 0]
  /\ pc' = "service"
  /\ UNCHANGED <<calls, result, executions, templates, response>>
  /\ UNCHANGED <<sanVars, testVars, conVars>>

\* Stage 1: the plan and its sub-tasks.  A sub_tasks member that cannot be
\* iterated over raises a TypeError at the loop.
DecomposePlan ==
  /\ pc = "service"
  /\ req.category = "decomposition"
  /\ loc.at = "plan"
  /\ \E resp \in Invocations(PlanReplies) :
       LET out   == execute_prompt(ADVANCED_PROMPTS_decomposition_planner,
                                   req.task_description, req.model, llm, resp)
           o     == PlanOutcome(loc, out,
                                PlannedSubTasks(out.ret.output,
                                                req.task_description))
       IN  /\ calls' = Logged("Planning", ADVANCED_PROMPTS_decomposition_planner,
                              req.task_description, resp, out)
           /\ pc' = IF o.raised THEN "raised" ELSE pc
           /\ loc' = o.loc
  /\ UNCHANGED <<req, llm, result, executions, templates, response>>
  /\ UNCHANGED <<sanVars, testVars, conVars>>

\* What the model may answer to a sub-task's prompt: a short text, a text
\* of 520 characters whose last 20 differ from its first 500, or no answer.
StepReplies ==
  {Reply(<<"R","e","s","u","l","t"," ","A",".">>, "given", 20, 10, 120),
   Reply([i \in 1..520 |-> IF i <= 500 THEN "y" ELSE "z"], "given", 20, 90, 150),
   Failure(ConnectionError, 30)}

\* A context that holds the whole of the last output.
step_context_whole(sub_outputs) ==
  IF sub_outputs # <<>>
    THEN <<"\n","\n","C","o","n","t","e","x","t"," ","f","r","o","m"," ","p",
           "r","e","v","i","o","u","s"," ","s","t","e","p","s",":","\n">> \o sub_outputs[Len(sub_outputs)]
    ELSE <<>>

\* The context of a sub-task: the first 500 characters of the output of the
\* sub-task before it, nothing for the first sub-task.
step_context(sub_outputs) ==
  IF sub_outputs # <<>>
    THEN <<"\n","\n","C","o","n","t","e","x","t"," ","f","r","o","m"," ","p",
           "r","e","v","i","o","u","s"," ","s","t","e","p","s",":","\n">>
           \o SubSeq(sub_outputs[Len(sub_outputs)], 1,
                     Min(500, Len(sub_outputs[Len(sub_outputs)])))
    ELSE <<>>

\* Stage 2: one sub-task.  A sub-task that is no dictionary has no get, an
\* AttributeError the function does not catch.
DecomposeStep ==
  /\ pc = "service"
  /\ req.category = "decomposition"
  /\ loc.at = "step"
  /\ LET task == loc.sub_tasks[Len(loc.sub_outputs) + 1]
     IN  IF task.t # "obj"
           THEN pc' = "raised" /\ UNCHANGED <<calls, loc>>
           ELSE \E resp \in Invocations(StepReplies) :
             LET instruction == PyStr(DictGet(task, <<"i","n","s","t","r","u","c","t",
                                              "i","o","n">>, JStr(<<>>)))
                 user     == instruction \o step_context(loc.sub_outputs)
                 out      == execute_prompt(SubTaskSystem, user, req.model, llm, resp)
                 r        == out.ret
                 name     == <<"S","t","e","p"," ">>
                               \o PyStr(DictGet(task, <<"s","t","e","p">>, JStr(<<"?">>)))
                               \o <<":"," ">>
                               \o PyStr(DictGet(task, <<"t","i","t","l","e">>, JStr(<<>>)))
             IN  /\ calls' = Logged("Step", SubTaskSystem, user, resp, out)
                 /\ IF out.raised
                      THEN pc' = "raised" /\ UNCHANGED loc
                      ELSE /\ pc' = pc
                           /\ loc' = [Accumulate(loc, r) EXCEPT
                                !.sub_outputs = Append(@, r.output),
                                !.stages = Append(@, [stage |-> name,
                                                      output |-> r.output]),
                                !.at = IF Len(loc.sub_outputs) + 1
                                            < Len(loc.sub_tasks)
                                         THEN "step" ELSE "integrate"]
  /\ UNCHANGED <<req, llm, result, executions, templates, response>>
  /\ UNCHANGED <<sanVars, testVars, conVars>>

\* The sub-task results as the integrator reads them.
combined(sub_tasks, sub_outputs) ==
  Join([i \in DOMAIN sub_outputs |->
          <<"S","u","b","-","t","a","s","k"," ">> \o Decimal(i) \o <<":"," ">>
            \o PyStr(DictGet(sub_tasks[i], <<"t","i","t","l","e">>, JStr(<<>>)))
            \o <<"\n">> \o sub_outputs[i]],
       <<"\n","\n","-","-","-","\n","\n">>)

\* Stage 3: the integration, and the dictionary returned.
DecomposeIntegrate ==
  /\ pc = "service"
  /\ req.category = "decomposition"
  /\ loc.at = "integrate"
  /\ \E resp \in Invocations(DraftReplies) :
       LET user == <<"O","r","i","g","i","n","a","l"," ","t","a","s","k",":",
                     " ">> \o req.task_description
                     \o <<"\n","\n","S","u","b","-","t","a","s","k"," ","r",
                          "e","s","u","l","t","s",":","\n">>
                     \o combined(loc.sub_tasks, loc.sub_outputs)
           out  == execute_prompt(ADVANCED_PROMPTS_decomposition_integrator,
                                  user, req.model, llm, resp)
           r    == out.ret
           l    == Accumulate(loc, r)
       IN  /\ calls' = Logged("Integration",
                              ADVANCED_PROMPTS_decomposition_integrator, user,
                              resp, out)
           /\ IF out.raised
                THEN pc' = "raised" /\ UNCHANGED result
                ELSE /\ pc' = "returned"
                     /\ result' = PipelineResult(
                          [final_output |-> r.output,
                           stages |-> Append(loc.stages,
                                             [stage |-> <<"I","n","t","e","g","r","a","t",
                                              "i","o","n">>,
                                              output |-> r.output]),
                           sub_task_count |-> Len(loc.sub_tasks)],
                          l, req.model)
  /\ UNCHANGED <<req, llm, loc, executions, templates, response>>
  /\ UNCHANGED <<sanVars, testVars, conVars>>

\* ------------------------------------------------------------ execute_expert_panel

\* EXPERT_PERSONAS: key, name and description of each built-in persona.
EXPERT_PERSONAS ==
  <<
     <<<<"o","p","t","i","m","i","s","t">>,
      <<"O","p","t","i","m","i","s","t"," ","S","t","r","a","t","e","g","i",
        "s","t">>,
      <<"s","t","r","a","t","e","g","i","c"," ","t","h","i","n","k","e","r",
        " ","w","h","o"," ","f","o","c","u","s","e","s"," ","o","n"," ","o",
        "p","p","o","r","t","u","n","i","t","i","e","s",","," ","g","r","o",
        "w","t","h"," ","p","o","t","e","n","t","i","a","l",","," ","a","n",
        "d"," ","p","o","s","i","t","i","v","e"," ","o","u","t","c","o","m",
        "e","s">>
     >>,
     <<<<"s","k","e","p","t","i","c">>,
      <<"S","k","e","p","t","i","c","a","l"," ","A","n","a","l","y","s","t">>,
      <<"c","r","i","t","i","c","a","l"," ","a","n","a","l","y","s","t"," ",
        "w","h","o"," ","q","u","e","s","t","i","o","n","s"," ","a","s","s",
        "u","m","p","t","i","o","n","s",","," ","i","d","e","n","t","i","f",
        "i","e","s"," ","f","l","a","w","s",","," ","a","n","d"," ","s","t",
        "r","e","s","s","-","t","e","s","t","s"," ","i","d","e","a","s">>
     >>,
     <<<<"r","i","s","k","_","m","g","r">>,
      <<"R","i","s","k"," ","M","a","n","a","g","e","r">>,
      <<"r","i","s","k"," ","m","a","n","a","g","e","m","e","n","t"," ","p",
        "r","o","f","e","s","s","i","o","n","a","l"," ","w","h","o"," ","e",
        "v","a","l","u","a","t","e","s"," ","t","h","r","e","a","t","s",",",
        " ","v","u","l","n","e","r","a","b","i","l","i","t","i","e","s",",",
        " ","a","n","d"," ","m","i","t","i","g","a","t","i","o","n"," ","s",
        "t","r","a","t","e","g","i","e","s">>
     >>,
     <<<<"t","e","c","h","n","i","c","a","l">>,
      <<"T","e","c","h","n","i","c","a","l"," ","E","x","p","e","r","t">>,
      <<"t","e","c","h","n","o","l","o","g","y"," ","s","p","e","c","i","a",
        "l","i","s","t"," ","w","h","o"," ","a","s","s","e","s","s","e","s",
        " ","f","e","a","s","i","b","i","l","i","t","y",","," ","i","m","p",
        "l","e","m","e","n","t","a","t","i","o","n"," ","c","o","m","p","l",
        "e","x","i","t","y",","," ","a","n","d"," ","t","e","c","h","n","i",
        "c","a","l"," ","t","r","a","d","e","-","o","f","f","s">>
     >>,
     <<<<"e","n","d","_","u","s","e","r">>,
      <<"E","n","d","-","U","s","e","r"," ","A","d","v","o","c","a","t","e">>,
      <<"u","s","e","r"," ","e","x","p","e","r","i","e","n","c","e"," ","c",
        "h","a","m","p","i","o","n"," ","w","h","o"," ","e","v","a","l","u",
        "a","t","e","s"," ","f","r","o","m"," ","t","h","e"," ","c","u","s",
        "t","o","m","e","r","/","e","n","d","-","u","s","e","r"," ","p","e",
        "r","s","p","e","c","t","i","v","e">>
     >>,
     <<<<"f","i","n","a","n","c","i","a","l">>,
      <<"F","i","n","a","n","c","i","a","l"," ","A","d","v","i","s","o","r">>,
      <<"f","i","n","a","n","c","i","a","l"," ","e","x","p","e","r","t"," ",
        "w","h","o"," ","a","n","a","l","y","z","e","s"," ","c","o","s","t",
        "s",","," ","R","O","I",","," ","a","n","d"," ","e","c","o","n","o",
        "m","i","c"," ","v","i","a","b","i","l","i","t","y">>
     >>
  >>

\* EXPERT_PERSONAS.get(key, (key, 'domain expert')): name and description.
EXPERT_PERSONAS_get(key) ==
  LET hit == {i \in DOMAIN EXPERT_PERSONAS : EXPERT_PERSONAS[i][1] = key}
  IN  IF hit = {}
        THEN <<key,
      <<"d","o","m","a","i","n"," ","e","x","p","e","r","t">>
             >>
        ELSE <<EXPERT_PERSONAS[CHOOSE i \in hit : TRUE][2],
               EXPERT_PERSONAS[CHOOSE i \in hit : TRUE][3]>>

\* ADVANCED_PROMPTS['expert_panel_persona'].format(persona_name=...,
\* persona_description=...)
expert_panel_persona(persona_name, persona_description) ==
  <<"Y","o","u"," ","a","r","e"," ">>
    \o persona_name
    \o <<","," ","a"," ">>
    \o persona_description
    \o <<"."," ","Y","o","u"," ","a","r","e"," ","p","a","r","t","i","c","i",
        "p","a","t","i","n","g"," ","i","n"," ","a","n"," ","e","x","p","e",
        "r","t"," ","p","a","n","e","l"," ","d","i","s","c","u","s","s","i",
        "o","n"," ","o","n"," ","t","h","e"," ","f","o","l","l","o","w","i",
        "n","g"," ","t","o","p","i","c",".","\n","\n","P","r","o","v","i","d",
        "e"," ","y","o","u","r"," ","p","e","r","s","p","e","c","t","i","v",
        "e"," ","b","a","s","e","d"," ","o","n"," ","y","o","u","r"," ","e",
        "x","p","e","r","t","i","s","e"," ","a","n","d"," ","r","o","l","e",
        "."," ","B","e"," ","s","p","e","c","i","f","i","c",","," ","i","n",
        "s","i","g","h","t","f","u","l",","," ","a","n","d"," ","g","r","o",
        "u","n","d","e","d"," ","i","n"," ","y","o","u","r"," ","d","o","m",
        "a","i","n"," ","k","n","o","w","l","e","d","g","e","."," ","E","x",
        "p","r","e","s","s"," ","y","o","u","r"," ","u","n","i","q","u","e",
        " ","v","i","e","w","p","o","i","n","t"," ","i","n","c","l","u","d",
        "i","n","g"," ","p","o","t","e","n","t","i","a","l"," ","c","o","n",
        "c","e","r","n","s",","," ","o","p","p","o","r","t","u","n","i","t",
        "i","e","s",","," ","a","n","d"," ","r","e","c","o","m","m","e","n",
        "d","a","t","i","o","n","s"," ","f","r","o","m"," ","y","o","u","r",
        " ","p","e","r","s","p","e","c","t","i","v","e",".","\n","\n","K","e",
        "e","p"," ","y","o","u","r"," ","r","e","s","p","o","n","s","e"," ",
        "f","o","c","u","s","e","d"," ","a","n","d"," ","s","u","b","s","t",
        "a","n","t","i","v","e"," ","(","2","0","0","-","4","0","0"," ","w",
        "o","r","d","s",")",".">>

ADVANCED_PROMPTS_expert_panel_moderator ==
  <<"Y","o","u"," ","a","r","e"," ","a"," ","s","k","i","l","l","e","d",
        " ","m","o","d","e","r","a","t","o","r"," ","s","y","n","t","h","e",
        "s","i","z","i","n","g"," ","a","n"," ","e","x","p","e","r","t"," ",
        "p","a","n","e","l"," ","d","i","s","c","u","s","s","i","o","n",".",
        "\n","\n","M","u","l","t","i","p","l","e"," ","e","x","p","e","r","t",
        "s"," ","h","a","v","e"," ","s","h","a","r","e","d"," ","t">>

panel_text(expert_responses) ==
  Join([i \in DOMAIN expert_responses |->
          <<"-","-","-"," ">> \o expert_responses[i].persona \o <<" ","-","-","-","\n">>
            \o expert_responses[i].response],
       <<"\n","\n">>)

\* A key of the table and a key that is not in it.
PersonaKeys ==
  {EXPERT_PERSONAS[2][1], <<"w","i","z","a","r","d">>}

\* The persona lists of requests (the serializer asks for 2 to 6 personas).
PersonaLists ==
  UNION {[1..n -> PersonaKeys] : n \in 2..MaxPersonas}

ReceiveExpertPanel ==
  /\ pc = "idle"
  /\ \E personas \in PersonaLists :
       req' = [view |-> "advanced", category |-> "expert_panel",
               topic |-> <<"R","e","m","o","t","e"," ","w","o","r","k">>, personas |-> personas,
               model |-> "gpt-4o-mini"]
  /\ llm' \in BOOLEAN
  /\ loc' = [at |-> "expert", expert_responses |-> <<>>,
             total_tokens |-> 0, total_cost |-> 0, total_latency |-> 0]
  /\ pc' = "service"
  /\ UNCHANGED <<calls, result, executions, templates, response>>
  /\ UNCHANGED <<sanVars, testVars, conVars>>

\* The local variables after the expert of key persona_key answered r.
ExpertAnswered(l, r, persona_key, personas) ==
  [Accumulate(l, r) EXCEPT
     !.expert_responses =
        Append(@, [persona |-> EXPERT_PERSONAS_get(persona_key)[1],
                   persona_key |-> persona_key,
                   response |-> r.output]),
     !.at = IF Len(l.expert_responses) + 1 < Len(personas) THEN "expert"
            ELSE "moderator"]

\* Round 1: one expert's perspective.
ExpertSpeaks ==
  /\ pc = "service"
  /\ req.category = "expert_panel"
  /\ loc.at = "expert"
  /\ \E resp \in Invocations(DraftReplies) :
       LET persona_key == req.personas[Len(loc.expert_responses) + 1]
           persona == EXPERT_PERSONAS_get(persona_key)
           system  == expert_panel_persona(persona[1], persona[2])
           user    == <<"T","o","p","i","c"," ","f","o","r"," ","d","i","s",
                        "c","u","s","s","i","o","n",":","\n">> \o req.topic
           out     == execute_prompt(system, user, req.model, llm, resp)
       IN  /\ calls' = Logged("expert", system, user, resp, out)
           /\ IF out.raised
                THEN pc' = "raised" /\ UNCHANGED loc
                ELSE /\ pc' = pc
                     /\ loc' = ExpertAnswered(loc, out.ret, persona_key,
                                              req.personas)
  /\ UNCHANGED <<req, llm, result, executions, templates, response>>
  /\ UNCHANGED <<sanVars, testVars, conVars>>

\* Round 2: the moderator's synthesis, and the dictionary returned.
ModeratorSynthesizes ==
  /\ pc = "service"
  /\ req.category = "expert_panel"
  /\ loc.at = "moderator"
  /\ \E resp \in Invocations(DraftReplies) :
       LET user == <<"T","o","p","i","c",":"," ">> \o req.topic \o <<"\n","\n","E","x","p","e","r",
                                              "t"," ","p","e","r","s","p","e",
                                              "c","t","i","v","e","s",":",
                                              "\n">>
                     \o panel_text(loc.expert_responses)
           out  == execute_prompt(ADVANCED_PROMPTS_expert_panel_moderator, user,
                                  req.model, llm, resp)
       IN  /\ calls' = Logged("moderator",
                              ADVANCED_PROMPTS_expert_panel_moderator, user,
                              resp, out)
           /\ IF out.raised
                THEN pc' = "raised" /\ UNCHANGED result
                ELSE /\ pc' = "returned"
                     /\ result' = PipelineResult(
                          [expert_responses |-> loc.expert_responses,
                           synthesis |-> out.ret.output,
                           num_experts |-> Len(loc.expert_responses)],
                          Accumulate(loc, out.ret), req.model)
  /\ UNCHANGED <<req, llm, loc, executions, templates, response>>
  /\ UNCHANGED <<sanVars, testVars, conVars>>

\* ------------------------------------------------------------ execute_rag_simulator

ADVANCED_PROMPTS_rag_retriever ==
  <<"Y","o","u"," ","a","r","e"," ","a"," ","d","o","c","u","m","e","n",
        "t"," ","r","e","t","r","i","e","v","a","l"," ","e","x","p","e","r",
        "t","."," ","G","i","v","e","n"," ","a"," ","k","n","o","w","l","e",
        "d","g","e"," ","b","a","s","e"," ","s","p","l","i","t"," ","i","n",
        "t","o"," ","c","h","u","n","k","s"," ","a","n","d"," ","a"," ","q",
        "u","e","r","y",","," ","r","a","n","k"," ","t","h","e"," ">>

ADVANCED_PROMPTS_rag_generator ==
  <<"Y","o","u"," ","a","r","e"," ","a"," ","q","u","e","s","t","i","o",
        "n","-","a","n","s","w","e","r","i","n","g"," ","a","s","s","i","s",
        "t","a","n","t","."," ","A","n","s","w","e","r"," ","t","h","e"," ",
        "q","u","e","s","t","i","o","n"," ","u","s","i","n","g"," ","O","N",
        "L","Y"," ","t","h","e"," ","p","r","o","v","i","d","e","d"," ","c",
        "o","n","t","e","x","t"," ","c","h","u","n","k","s","."," ">>

BaselineSystem ==
  <<"A","n","s","w","e","r"," ","t","h","e"," ","f","o","l","l","o","w",
        "i","n","g"," ","q","u","e","s","t","i","o","n"," ","t","o"," ","t",
        "h","e"," ","b","e","s","t"," ","o","f"," ","y","o","u","r"," ","k",
        "n","o","w","l","e","d","g","e",".">>

\* The number of chunks the generator is given at most.
top_k == 3

\* The chunks of pairs (index and text), as a prompt lists them.
chunk_lines(pairs) ==
  Join([i \in DOMAIN pairs |->
          <<"[","C","h","u","n","k"," ">> \o Decimal(pairs[i].idx) \o <<"]",":"," ">> \o pairs[i].text],
       <<"\n","\n">>)

Numbered(knowledge_chunks) ==
  [i \in DOMAIN knowledge_chunks |-> [idx |-> i, text |-> knowledge_chunks[i]]]

FirstK(seq, k) ==
  SubSeq(seq, 1, Min(k, Len(seq)))

\* The selection loop over the first items of the ranking: "ok" with the
\* chunks selected, "type_error" when an item's chunk_index is no number (the
\* function catches it), "attribute_error" when an item is no dictionary
\* (the function does not).
RECURSIVE SelectRanked(_, _, _), SelectIndexed(_, _, _, _)
SelectRanked(items, knowledge_chunks, selected) ==
  IF items = <<>> THEN [kind |-> "ok", selected |-> selected]
  ELSE IF Head(items).t # "obj"
    THEN [kind |-> "attribute_error", selected |-> selected]
  ELSE SelectIndexed(Tail(items), knowledge_chunks, selected,
                     DictGet(Head(items), <<"c","h","u","n","k","_","i","n",
                                            "d","e","x">>, JNum(1)))

\* The step of the loop for an item whose chunk_index is ci: a number (a
\* boolean counts as 1 or 0) names the chunk before it, counted from 0.
SelectIndexed(rest, knowledge_chunks, selected, ci) ==
  IF ci.t \notin {"num", "bool"}
    THEN [kind |-> "type_error", selected |-> selected]
  ELSE LET idx == (IF ci.t = "num" THEN ci.n ELSE IF ci.b THEN 1 ELSE 0) - 1
       IN  SelectRanked(rest, knowledge_chunks,
                        IF 0 <= idx /\ idx < Len(knowledge_chunks)
                          THEN Append(selected,
                                      [idx |-> idx + 1,
                                       text |-> knowledge_chunks[idx + 1]])
                          ELSE selected)

\* The selection from the value of ranked_chunks: the first top_k items of a
\* list or of a string; a number, a boolean and null cannot be sliced (a
\* TypeError).
SelectFrom(ranked, knowledge_chunks) ==
  CASE ranked.t \in {"arr", "str"} ->
         SelectRanked(FirstK(IterItems(ranked), top_k), knowledge_chunks, <<>>)
    [] ranked.t \in {"num", "bool", "null"} ->
         [kind |-> "type_error", selected |-> <<>>]

\* The selection after the ranking is parsed to p.
SelectParsed(p, knowledge_chunks) ==
  IF ~p.ok THEN [kind |-> "decode_error", selected |-> <<>>]
  ELSE IF p.v.t # "obj" THEN [kind |-> "attribute_error", selected |-> <<>>]
  ELSE SelectFrom(DictGet(p.v, <<"r","a","n","k","e","d","_","c","h","u","n",
                                 "k","s">>, JArr(<<>>)), knowledge_chunks)

\* selected_chunks after the retrieval output is read: the chunks the
\* ranking names, or the first chunks when the output does not parse or a
\* TypeError is caught; raised tells an exception that is not caught.
SelectedChunks(retrieval_output, knowledge_chunks) ==
  LET o == SelectParsed(json_loads(_sanitize_json(retrieval_output)),
                        knowledge_chunks)
  IN  IF o.kind = "attribute_error"
        THEN [raised |-> TRUE, selected |-> <<>>]
      ELSE IF o.kind = "ok" THEN [raised |-> FALSE, selected |-> o.selected]
      ELSE [raised |-> FALSE,
            selected |-> Numbered(FirstK(knowledge_chunks, top_k))]

\* text[:200] + '...' if len(text) > 200 else text
Shortened(text) ==
  IF Len(text) > 200 THEN SubSeq(text, 1, 200) \o <<".",".",".">> ELSE text

\* The knowledge bases of requests: 1 to MaxChunks chunks.
ChunkLists ==
  {[i \in 1..n |-> <<"K">> \o Decimal(i)] : n \in 1..MaxChunks}

\* What the model may answer to the retriever's prompt.
RetrievalReplies ==
  {Reply(<<"{","\"","r","a","n","k","e","d","_","c","h","u","n","k","s","\"",
           ":"," ","[","{","\"","c","h","u","n","k","_","i","n","d","e","x",
           "\"",":"," ","2","}",","," ","{","\"","c","h","u","n","k","_","i",
           "n","d","e","x","\"",":"," ","9","}",","," ","{","\"","c","h","u",
           "n","k","_","i","n","d","e","x","\"",":"," ","1","}",","," ","{",
           "\"","c","h","u","n","k","_","i","n","d","e","x","\"",":"," ","1",
           "}","]","}">>, "given", 40, 30, 70),
   Reply(<<"{","\"","r","a","n","k","e","d","_","c","h","u","n","k","s","\"",
           ":"," ","[","{","\"","c","h","u","n","k","_","i","n","d","e","x",
           "\"",":"," ","1","}",","," ","{","\"","c","h","u","n","k","_","i",
           "n","d","e","x","\"",":"," ","\"","x","\"","}","]","}">>, "given", 40, 20, 60),
   Reply(<<"{","\"","r","a","n","k","e","d","_","c","h","u","n","k","s","\"",
           ":"," ","[","{","\"","c","h","u","n","k","_","i","n","d","e","x",
           "\"",":"," ","1","}",","," ","{","}",","," ","{","\"","c","h","u",
           "n","k","_","i","n","d","e","x","\"",":"," ","1","}","]","}">>, "given", 40, 20, 60),
   Reply(<<"C","h","u","n","k"," ","1"," ","i","s"," ","b","e","s","t",".">>, "missing", 0, 0, 50),
   Reply(<<"[","1","]">>, "given", 40, 0, 40),
   Failure(ConnectionError, 30)}

ReceiveRag ==
  /\ pc = "idle"
  /\ \E knowledge_chunks \in ChunkLists :
       req' = [view |-> "advanced", category |-> "rag_simulator",
               query |-> <<"W","h","y","?">>, knowledge_chunks |-> knowledge_chunks,
               model |-> "gpt-4o-mini"]
  /\ llm' \in BOOLEAN
  /\ loc' = [at |-> "retrieve", retrieval_output |-> <<>>,
             selected_chunks |-> <<>>, answer_with_context |-> <<>>,
             total_tokens |-> 0, total_cost |-> 0, total_latency |-> 0]
  /\ pc' = "service"
  /\ UNCHANGED <<calls, result, executions, templates, response>>
  /\ UNCHANGED <<sanVars, testVars, conVars>>

\* The retrieval's outcome: an exception, or the local variables after the
\* retriever returned out.ret and sel was selected.
RetrievalOutcome(l, out, sel) ==
  IF out.raised \/ sel.raised THEN [raised |-> TRUE, loc |-> l]
  ELSE [raised |-> FALSE,
        loc |-> [Accumulate(l, out.ret) EXCEPT
                   !.retrieval_output = out.ret.output,
                   !.selected_chunks = sel.selected,
                   !.at = "answer"]]

\* Step 1: the ranking of the chunks and the selection.
RagRetrieve ==
  /\ pc = "service"
  /\ req.category = "rag_simulator"
  /\ loc.at = "retrieve"
  /\ \E resp \in Invocations(RetrievalReplies) :
       LET user == <<"Q","u","e","r","y",":"," ">> \o req.query
                     \o <<"\n","\n","K","n","o","w","l","e","d","g","e"," ",
                          "b","a","s","e"," ","c","h","u","n","k","s",":",
                          "\n">>
                     \o chunk_lines(Numbered(req.knowledge_chunks))
           out  == execute_prompt(ADVANCED_PROMPTS_rag_retriever, user,
                                  req.model, llm, resp)
           o    == RetrievalOutcome(loc, out,
                                    SelectedChunks(out.ret.output,
                                                   req.knowledge_chunks))
       IN  /\ calls' = Logged("retrieval", ADVANCED_PROMPTS_rag_retriever, user,
                              resp, out)
           /\ pc' = IF o.raised THEN "raised" ELSE pc
           /\ loc' = o.loc
  /\ UNCHANGED <<req, llm, result, executions, templates, response>>
  /\ UNCHANGED <<sanVars, testVars, conVars>>

\* Step 2: the answer from the selected chunks.
RagAnswer ==
  /\ pc = "service"
  /\ req.category = "rag_simulator"
  /\ loc.at = "answer"
  /\ \E resp \in Invocations(DraftReplies) :
       LET user == <<"Q","u","e","s","t","i","o","n",":"," ">> \o req.query
                     \o <<"\n","\n","R","e","t","r","i","e","v","e","d"," ",
                          "c","o","n","t","e","x","t",":","\n">>
                     \o chunk_lines(loc.selected_chunks)
           out  == execute_prompt(ADVANCED_PROMPTS_rag_generator, user,
                                  req.model, llm, resp)
       IN  /\ calls' = Logged("with_context", ADVANCED_PROMPTS_rag_generator,
                              user, resp, out)
           /\ IF out.raised
                THEN pc' = "raised" /\ UNCHANGED loc
                ELSE /\ pc' = pc
                     /\ loc' = [Accumulate(loc, out.ret) EXCEPT
                          !.answer_with_context = out.ret.output,
                          !.at = "baseline"]
  /\ UNCHANGED <<req, llm, result, executions, templates, response>>
  /\ UNCHANGED <<sanVars, testVars, conVars>>

\* Step 3: the answer without context, and the dictionary returned.
RagBaseline ==
  /\ pc = "service"
  /\ req.category = "rag_simulator"
  /\ loc.at = "baseline"
  /\ \E resp \in Invocations(DraftReplies) :
       LET out == execute_prompt(BaselineSystem, req.query, req.model, llm, resp)
       IN  /\ calls' = Logged("without_context", BaselineSystem, req.query,
                              resp, out)
           /\ IF out.raised
                THEN pc' = "raised" /\ UNCHANGED result
                ELSE /\ pc' = "returned"
                     /\ result' = PipelineResult(
                          [retrieval |-> loc.retrieval_output,
                           selected_chunks |->
                             [i \in DOMAIN loc.selected_chunks |->
                                [chunk_index |-> loc.selected_chunks[i].idx,
                                 text |-> Shortened(loc.selected_chunks[i].text)]],
                           answer_with_context |-> loc.answer_with_context,
                           answer_without_context |-> out.ret.output,
                           num_chunks_total |-> Len(req.knowledge_chunks),
                           num_chunks_retrieved |-> Len(loc.selected_chunks)],
                          Accumulate(loc, out.ret), req.model)
  /\ UNCHANGED <<req, llm, loc, executions, templates, response>>
  /\ UNCHANGED <<sanVars, testVars, conVars>>

\* ------------------------------------------------------------ custom_prompt

\* What the model may answer to a prompt of the user's own.
CustomReplies ==
  {Reply(<<"F","i","n","e",".">>, "given", 20, 10, 80),
   Reply(<<"T","w","o"," ","w","o","r","d","s">>, "missing", 0, 0, 60),
   Failure(ConnectionError, 30)}

\* The values request.data may carry as template_id: none, the id of a
\* template, an id no template has.
TemplateIdInputs == {<<>>, <<"t1">>, <<"t9">>}

ReceiveCustom ==
  /\ pc = "idle"
  /\ \E template_id \in TemplateIdInputs,
        system_prompt \in {<<>>, <<"B","e"," ","t","e","r","s","e",".">>},
        model \in {"gpt-4o-mini", "claude-3-haiku-20240307", "my-model"} :
       req' = [view |-> "feature", category |-> "custom",
               system_prompt |-> system_prompt, user_prompt |-> <<"S","a","y"," ","h","i">>,
               model |-> model, template_id |-> template_id]
  /\ llm' \in BOOLEAN
  /\ loc' = [at |-> "call"]
  /\ pc' = "service"
  /\ UNCHANGED <<calls, result, executions, templates, response>>
  /\ UNCHANGED <<sanVars, testVars, conVars>>

execute_custom_prompt ==
  /\ pc = "service"
  /\ req.category = "custom"
  /\ \E resp \in Invocations(CustomReplies) :
       LET out == execute_prompt(req.system_prompt, req.user_prompt, req.model,
                                 llm, resp)
       IN  /\ calls' = Logged("custom", req.system_prompt, req.user_prompt,
                              resp, out)
           /\ IF out.raised
                THEN pc' = "raised" /\ UNCHANGED result
                ELSE pc' = "returned" /\ result' = out.ret
  /\ UNCHANGED <<req, llm, loc, executions, templates, response>>
  /\ UNCHANGED <<sanVars, testVars, conVars>>

\* ------------------------------------------------------------ run_batch_evaluation

\* The input lists of batch requests: 1 to MaxInputs texts.
BatchInputs ==
  UNION {[1..n -> {<<"u">>, <<"v","w">>}] : n \in 1..MaxInputs}

\* An average that rounds up.
avg_latency_ceiling(total_latency, n) ==
  (total_latency + n - 1) \div n

\* total_latency // max(len(inputs), 1)
avg_latency_ms(total_latency, n) ==
  total_latency \div (IF n > 1 THEN n ELSE 1)

ReceiveBatch ==
  /\ pc = "idle"
  /\ \E inputs \in BatchInputs :
       req' = [view |-> "batch", category |-> "batch_evaluation",
               prompt_text |-> <<"C","l","a","s","s","i","f","y">>, system_prompt |-> <<>>,
               inputs |-> inputs, model |-> "gpt-4o-mini"]
  /\ llm' \in BOOLEAN
  /\ loc' = [at |-> "run", results |-> <<>>,
             total_tokens |-> 0, total_cost |-> 0, total_latency |-> 0]
  /\ pc' = "service"
  /\ UNCHANGED <<calls, result, executions, templates, response>>
  /\ UNCHANGED <<sanVars, testVars, conVars>>

\* One iteration of the loop over the inputs.
BatchRun ==
  /\ pc = "service"
  /\ req.category = "batch_evaluation"
  /\ Len(loc.results) < Len(req.inputs)
  /\ \E resp \in Invocations(CustomReplies) :
       LET i    == Len(loc.results) + 1
           inp  == req.inputs[i]
           user == IF inp # <<>>
                     THEN req.prompt_text \o <<"\n","\n","I","n","p","u","t",
                                              ":"," ">> \o inp
                     ELSE req.prompt_text
           out  == execute_prompt(req.system_prompt, user, req.model, llm, resp)
       IN  /\ calls' = Logged("batch", req.system_prompt, user, resp, out)
           /\ IF out.raised
                THEN pc' = "raised" /\ UNCHANGED loc
                ELSE /\ pc' = pc
                     /\ loc' = [Accumulate(loc, out.ret) EXCEPT
                           !.results = Append(@,
                              [index |-> i,
                               input |-> SubSeq(inp, 1, Min(200, Len(inp))),
                               output |-> out.ret.output,
                               tokens |-> out.ret.tokens_input
                                            + out.ret.tokens_output,
                               latency_ms |-> out.ret.latency_ms])]
  /\ UNCHANGED <<req, llm, result, executions, templates, response>>
  /\ UNCHANGED <<sanVars, testVars, conVars>>

\* The dictionary returned after the loop.
BatchReturn ==
  /\ pc = "service"
  /\ req.category = "batch_evaluation"
  /\ Len(loc.results) = Len(req.inputs)
  /\ result' = PipelineResult(
       [results |-> loc.results,
        summary |-> [total_inputs |-> Len(req.inputs),
                     total_tokens |-> loc.total_tokens,
                     total_cost |-> loc.total_cost,
                     total_latency_ms |-> loc.total_latency,
                     avg_latency_ms |->
                       avg_latency_ms(loc.total_latency, Len(req.inputs))]],
       loc, req.model)
  /\ pc' = "returned"
  /\ UNCHANGED <<req, llm, calls, loc, executions, templates, response>>
  /\ UNCHANGED <<sanVars, testVars, conVars>>

\* The batch_evaluation view after the service function has returned: the
\* response, and no record.
BatchRespond ==
  /\ pc = "returned"
  /\ req.view = "batch"
  /\ response' = [status |-> 200, execution_id |-> 0]
  /\ pc' = "done"
  /\ UNCHANGED <<req, llm, calls, loc, result, executions, templates>>
  /\ UNCHANGED <<sanVars, testVars, conVars>>

\* ------------------------------------------------------------ run_test_suite

\* The test cases a suite may hold, in their order: up to MaxCases cases,
\* each with an expected output and criteria or with neither.
SuiteCases ==
  UNION {[1..n -> {[input_text |-> <<"u">>, expected_output |-> <<"A">>,
                    criteria |-> <<"e","x","a","c","t">>],
                   [input_text |-> <<"v">>, expected_output |-> <<>>,
                    criteria |-> <<>>]}] : n \in 0..MaxCases}

eval_prompt(case, actual_output) ==
  <<"E","v","a","l","u","a","t","e"," ","t","h","i","s"," ","o","u","t",
        "p","u","t","."," ","S","c","o","r","e"," ","0","-","1","0","0",".",
        "\n">>
    \o <<"R","e","t","u","r","n"," ","J","S","O","N",":"," ","{","\"","s","c",
         "o","r","e","\"",":"," ","<","0","-","1","0","0",">",","," ","\"",
         "p","a","s","s","e","d","\"",":"," ","<","b","o","o","l",">",",",
         " ">>
    \o <<"\"","e","v","a","l","u","a","t","i","o","n","\"",":"," ","\"","<",
         "b","r","i","e","f"," ","a","s","s","e","s","s","m","e","n","t",">",
         "\"","}","\n","\n">>
    \o <<"E","x","p","e","c","t","e","d",":"," ">> \o case.expected_output \o <<"\n">>
    \o <<"C","r","i","t","e","r","i","a",":"," ">> \o case.criteria \o <<"\n">>
    \o <<"A","c","t","u","a","l"," ","o","u","t","p","u","t",":","\n">> \o actual_output

EvaluatorSystem ==
  <<"Y","o","u"," ","a","r","e"," ","a"," ","t","e","s","t"," ","e","v",
        "a","l","u","a","t","o","r","."," ","R","e","t","u","r","n"," ","O",
        "N","L","Y"," ","v","a","l","i","d"," ","J","S","O","N",".">>

\* What the model may answer to the evaluator's prompt.  The scores are
\* numbers and passed is a boolean wherever they are given.
EvalReplies ==
  {Reply(<<"{","\"","s","c","o","r","e","\"",":"," ","9","0",","," ","\"","p",
           "a","s","s","e","d","\"",":"," ","t","r","u","e",","," ","\"","e",
           "v","a","l","u","a","t","i","o","n","\"",":"," ","\"","o","k","\"",
           "}">>,
         "given", 60, 20, 70),
   Reply(<<"{","\"","s","c","o","r","e","\"",":"," ","4","0","}">>, "given", 60, 10, 60),
   Reply(<<"L","o","o","k","s"," ","g","o","o","d">>, "missing", 0, 0, 50),
   Reply(<<"[","1","]">>, "given", 60, 5, 40),
   Failure(ConnectionError, 30)}

\* An evaluation that scores 0 what it cannot read.
EvaluatedZero(p) ==
  [raised |-> FALSE, score |-> 0, passed |-> FALSE, evaluation |-> <<>>]

\* score, case_passed and evaluation after the try block, p being what
\* json.loads made of the sanitized evaluator output: the fallback when it
\* did not parse, the members of a parsed dictionary; any other parsed value
\* has no get, an AttributeError the function does not catch.
Evaluated(p) ==
  IF ~p.ok
    THEN [raised |-> FALSE, score |-> 50, passed |-> FALSE,
          evaluation |-> <<"C","o","u","l","d"," ","n","o","t"," ","a","u",
                           "t","o","-","e","v","a","l","u","a","t","e">>]
  ELSE IF p.v.t # "obj"
    THEN [raised |-> TRUE, score |-> 0, passed |-> FALSE, evaluation |-> <<>>]
  ELSE [raised |-> FALSE,
        score |-> DictGet(p.v, <<"s","c","o","r","e">>, JNum(0)).n,
        passed |-> Truthy(DictGet(p.v, <<"p","a","s","s","e","d">>, JBool(FALSE))),
        evaluation |-> DictGet(p.v, <<"e","v","a","l","u","a","t","i","o",
                                      "n">>, JStr(<<>>)).s]

\* The verdict on a case without criteria and expected output (the dash of
\* the source's text is written as a hyphen).
AutoPass ==
  [raised |-> FALSE, score |-> 100, passed |-> TRUE,
   evaluation |-> <<"N","o"," ","c","r","i","t","e","r","i","a"," ","-"," ",
                    "a","u","t","o","-","p","a","s","s">>]

\* The local variables after the iteration for case number i: r is the
\* result of the prompt's call, e the evaluator's (NoResult when it was not
\* called), ev the verdict.
CaseDone(l, r, e, ev) ==
  [l EXCEPT !.done = @ + 1,
            !.total_tokens = @ + e.tokens_input + e.tokens_output
                               + r.tokens_input + r.tokens_output,
            !.total_cost = @ + e.cost_estimate + r.cost_estimate,
            !.total_latency = @ + e.latency_ms + r.latency_ms,
            !.total_score = @ + ev.score,
            !.passed = IF ev.passed THEN @ + 1 ELSE @]

\* run_test_suite_view up to the loop of run_test_suite: the suite is looked
\* up (404 when there is none) and the TestRun row is created.
ReceiveTestSuite ==
  /\ pc = "idle"
  /\ \E suite_id \in {"s1", "s9"}, cases \in SuiteCases :
       IF suite_id = "s1"
         THEN /\ req' = [view |-> "test_suite", category |-> "test_suite",
                         suite |-> [prompt_text |-> <<"C","l","a","s","s","i","f",
                                              "y">>,
                                    system_prompt |-> <<>>,
                                    test_cases |-> cases],
                         model |-> "gpt-4o-mini"]
              /\ test_runs' = Append(test_runs,
                   [id |-> Len(test_runs) + 1, total_cases |-> Len(cases),
                    passed_cases |-> 0,
                    avg_score |-> [total_score |-> 0, cases |-> 1],
                    total_tokens |-> 0, total_cost |-> 0,
                    total_latency_ms |-> 0])
              /\ loc' = [at |-> "case", run |-> Len(test_runs) + 1, done |-> 0,
                         total_tokens |-> 0, total_cost |-> 0,
                         total_latency |-> 0, total_score |-> 0, passed |-> 0]
              /\ pc' = "service"
              /\ UNCHANGED response
         ELSE /\ req' = [view |-> "test_suite", category |-> "test_suite"]
              /\ response' = [status |-> 404, execution_id |-> 0]
              /\ pc' = "done"
              /\ UNCHANGED <<test_runs, loc>>
  /\ llm' \in BOOLEAN
  /\ UNCHANGED <<calls, result, executions, templates, test_results>>
  /\ UNCHANGED <<sanVars, conVars>>

\* One iteration of the loop over the cases: the prompt's call, the
\* evaluator's call when the case has criteria or an expected output, and
\* the TestResult row.
TestCaseRun ==
  /\ pc = "service"
  /\ req.category = "test_suite"
  /\ loc.done < Len(req.suite.test_cases)
  /\ \E resp \in Invocations(CustomReplies), eresp \in Invocations(EvalReplies) :
       LET i      == loc.done + 1
           case   == req.suite.test_cases[i]
           user   == req.suite.prompt_text \o <<"\n","\n","I","n","p","u","t",
                                              ":"," ">> \o case.input_text
           out    == execute_prompt(req.suite.system_prompt, user, req.model,
                                    llm, resp)
           judged == case.criteria # <<>> \/ case.expected_output # <<>>
           asked  == eval_prompt(case, out.ret.output)
           eout   == execute_prompt(EvaluatorSystem, asked, req.model, llm, eresp)
           ev     == IF judged
                       THEN Evaluated(json_loads(_sanitize_json(eout.ret.output)))
                       ELSE AutoPass
           e      == IF judged THEN eout.ret ELSE NoResult
           first  == Logged("case", req.suite.system_prompt, user, resp, out)
       IN  /\ calls' = IF judged
                          THEN Append(first,
                                 [stage |-> "evaluate",
                                  system_prompt |-> EvaluatorSystem,
                                  user_prompt |-> asked, resp |-> eresp,
                                  raised |-> eout.raised, result |-> eout.ret])
                          ELSE first
           /\ IF out.raised \/ (judged /\ eout.raised) \/ ev.raised
                THEN pc' = "raised" /\ UNCHANGED <<loc, test_results>>
                ELSE /\ pc' = pc
                     /\ test_results' = Append(test_results,
                          [run |-> loc.run, test_case |-> i,
                           actual_output |-> out.ret.output,
                           score |-> ev.score, passed |-> ev.passed,
                           evaluation |-> ev.evaluation,
                           tokens_used |-> out.ret.tokens_input
                                             + out.ret.tokens_output,
                           latency_ms |-> out.ret.latency_ms])
                     /\ loc' = CaseDone(loc, out.ret, e, ev)
  /\ UNCHANGED <<req, llm, result, executions, templates, response, test_runs>>
  /\ UNCHANGED <<sanVars, conVars>>

\* After the loop: the totals are saved on the TestRun row, and the view
\* answers with the row.  avg_score is kept as the fraction it is computed
\* from.
TestSuiteReturn ==
  /\ pc = "service"
  /\ req.category = "test_suite"
  /\ loc.done = Len(req.suite.test_cases)
  /\ test_runs' = [test_runs EXCEPT ![loc.run] =
       [@ EXCEPT !.passed_cases = loc.passed,
                 !.avg_score = [total_score |-> loc.total_score,
                                cases |-> IF loc.done > 1 THEN loc.done ELSE 1],
                 !.total_tokens = loc.total_tokens,
                 !.total_cost = loc.total_cost,
                 !.total_latency_ms = loc.total_latency]]
  /\ response' = [status |-> 200, execution_id |-> 0]
  /\ pc' = "done"
  /\ UNCHANGED <<req, llm, calls, loc, result, executions, templates,
                 test_results>>
  /\ UNCHANGED <<sanVars, conVars>>

\* ------------------------------------------------------------------ views

\* A status that does not read the result.
RecordStatusCompleted(res) ==
  "completed"

\* The status a record is created with.
RecordStatus(res) ==
  IF ~res.has_error THEN "completed" ELSE "failed"

\* The row PromptExecution.objects.create inserts for a result.
NewExecution(id, category, data, res) ==
  [id |-> id, category |-> category, input_data |-> data,
   output_data |-> res.output, status |-> RecordStatus(res),
   model_used |-> res.model, tokens_input |-> res.tokens_input,
   tokens_output |-> res.tokens_output, cost_estimate |-> res.cost_estimate,
   latency_ms |-> res.latency_ms, error_message |-> res.error,
   template |-> <<>>, rating |-> <<>>, feedback |-> <<>>]

\* The response both helpers build from the record and the result.
ResultResponse(id, res) ==
  [status |-> IF ~res.has_error THEN 200 ELSE 500, execution_id |-> id]

\* _execute_advanced after the service function has returned.
AdvancedRecord ==
  /\ pc = "returned"
  /\ req.view = "advanced"
  /\ LET id == Len(executions) + 1
     IN  /\ executions' = Append(executions,
                                 NewExecution(id, req.category, req, result))
         /\ response' = ResultResponse(id, result)
  /\ pc' = "done"
  /\ UNCHANGED <<req, llm, calls, loc, result, templates>>
  /\ UNCHANGED <<sanVars, testVars, conVars>>

\* _execute_feature after the service function has returned: the record,
\* and the response when the request names no template.
FeatureRecord ==
  /\ pc = "returned"
  /\ req.view = "feature"
  /\ LET id == Len(executions) + 1
     IN  /\ executions' = Append(executions,
                                 NewExecution(id, req.category, req, result))
         /\ IF req.template_id = <<>>
              THEN pc' = "done" /\ response' = ResultResponse(id, result)
              ELSE pc' = "created" /\ UNCHANGED response
  /\ UNCHANGED <<req, llm, calls, loc, result, templates>>
  /\ UNCHANGED <<sanVars, testVars, conVars>>

\* PromptTemplate.objects.get: the template, or DoesNotExist, which the
\* helper passes over.
FeatureGetTemplate ==
  /\ pc = "created"
  /\ IF req.template_id[1] \in DOMAIN templates
       THEN /\ pc' = "tpl_loaded"
            /\ loc' = [at |-> "tpl", usage_count |-> templates[req.template_id[1]]]
            /\ UNCHANGED response
       ELSE /\ pc' = "done"
            /\ response' = ResultResponse(Len(executions), result)
            /\ UNCHANGED loc
  /\ UNCHANGED <<req, llm, calls, result, executions, templates>>
  /\ UNCHANGED <<sanVars, testVars, conVars>>

\* tpl.usage_count += 1 and the save of that column.
FeatureSaveUsage ==
  /\ pc = "tpl_loaded"
  /\ templates' = [templates EXCEPT ![req.template_id[1]] = loc.usage_count + 1]
  /\ pc' = "tpl_saved"
  /\ UNCHANGED <<req, llm, calls, loc, result, executions, response>>
  /\ UNCHANGED <<sanVars, testVars, conVars>>

\* execution.template = tpl, the save of that column, and the response.
FeatureLinkTemplate ==
  /\ pc = "tpl_saved"
  /\ executions' = [executions EXCEPT ![Len(executions)].template =
                      req.template_id]
  /\ response' = ResultResponse(Len(executions), result)
  /\ pc' = "done"
  /\ UNCHANGED <<req, llm, calls, loc, result, templates>>
  /\ UNCHANGED <<sanVars, testVars, conVars>>

\* An exception of the service function leaves the view: the framework
\* answers 500 and the rest of the helper does not run.
UnhandledError ==
  /\ pc = "raised"
  /\ response' = [status |-> 500, execution_id |-> 0]
  /\ pc' = "done"
  /\ UNCHANGED <<req, llm, calls, loc, result, executions, templates>>
  /\ UNCHANGED <<sanVars, testVars, conVars>>

\* serializer.is_valid(raise_exception=True) on a body that is not valid: the
\* ValidationError leaves the helper before the service function is called,
\* and the framework answers 400.
RejectInvalid ==
  /\ pc = "idle"
  /\ \E data \in SelfCorrectingBodies \cup SchemaEnforcerBodies :
       /\ ~is_valid(data)
       /\ req' = data
  /\ response' = [status |-> 400, execution_id |-> 0]
  /\ pc' = "done"
  /\ UNCHANGED <<llm, calls, loc, result, executions, templates>>
  /\ UNCHANGED <<sanVars, testVars, conVars>>

\* The validated bodies of rating requests: rating and feedback.
RatingInputs ==
  {[rating |-> 1, feedback |-> <<>>], [rating |-> 5, feedback |-> <<"o","k">>]}

\* The rating action on an existing record.
rate ==
  /\ pc = "done"
  /\ \E k \in DOMAIN executions, data \in RatingInputs :
       executions' = [executions EXCEPT ![k].rating = <<data.rating>>,
                                        ![k].feedback = data.feedback]
  /\ UNCHANGED <<pc, req, llm, calls, loc, result, templates, response>>
  /\ UNCHANGED <<sanVars, testVars, conVars>>

\* The template endpoint's DELETE: the row goes, and the foreign key of
\* the records that point to it is set to null.
DestroyTemplate ==
  /\ pc = "done"
  /\ \E t \in DOMAIN templates :
       /\ templates' = [u \in DOMAIN templates \ {t} |-> templates[u]]
       /\ executions' = [k \in DOMAIN executions |->
                           IF executions[k].template = <<t>>
                             THEN [executions[k] EXCEPT !.template = <<>>]
                             ELSE executions[k]]
  /\ UNCHANGED <<pc, req, llm, calls, loc, result, response>>
  /\ UNCHANGED <<sanVars, testVars, conVars>>

\* ------------------------------------------------------------ concurrent requests
\* Several feature requests that name the template t1 and one rating
\* request, each handled by a worker of its own.  Every statement that
\* reads or writes the database is a step; the steps of different requests
\* interleave.  The service function of each feature request has returned.

InitConcurrent ==
  /\ InitRequests
  /\ sanIn = <<>>
  /\ sanOnce = <<>>
  /\ sanTwice = <<>>
  /\ sanPc = "start"
  /\ costIn = NoCost
  /\ costOut = <<>>
  /\ workers = [w \in 1..MaxWorkers |->
                  [pc |-> "returned", execution |-> 0, usage_count |-> 0]]
  /\ rater = [pc |-> "idle"]

\* PromptExecution.objects.create of a worker.
WorkerRecord ==
  \E w \in DOMAIN workers :
    /\ workers[w].pc = "returned"
    /\ LET id == Len(executions) + 1
           data == [view |-> "feature", category |-> "custom",
                    template_id |-> <<"t1">>]
       IN  /\ executions' = Append(executions,
                 NewExecution(id, "custom", data,
                              [NoResult EXCEPT !.output = <<"F","i","n","e",".">>,
                                               !.model = "gpt-4o-mini"]))
           /\ workers' = [workers EXCEPT ![w].pc = "created",
                                         ![w].execution = id]
    /\ UNCHANGED <<pc, req, llm, calls, loc, result, templates, response, rater>>
    /\ UNCHANGED <<sanVars, testVars>>

\* PromptTemplate.objects.get of a worker: the row as it is now, or
\* DoesNotExist, which ends the helper.
WorkerGetTemplate ==
  \E w \in DOMAIN workers :
    /\ workers[w].pc = "created"
    /\ workers' = IF "t1" \in DOMAIN templates
                    THEN [workers EXCEPT ![w].pc = "tpl_loaded",
                                         ![w].usage_count = templates["t1"]]
                    ELSE [workers EXCEPT ![w].pc = "done"]
    /\ UNCHANGED <<reqVars, rater>>
    /\ UNCHANGED <<sanVars, testVars>>

\* tpl.usage_count += 1 on the object the worker holds, and the save of that
\* column.
WorkerSaveUsage ==
  \E w \in DOMAIN workers :
    /\ workers[w].pc = "tpl_loaded"
    /\ templates' = [templates EXCEPT !["t1"] = workers[w].usage_count + 1]
    /\ workers' = [workers EXCEPT ![w].pc = "tpl_saved"]
    /\ UNCHANGED <<pc, req, llm, calls, loc, result, executions, response, rater>>
    /\ UNCHANGED <<sanVars, testVars>>

\* execution.template = tpl and the save of that column.
WorkerLinkTemplate ==
  \E w \in DOMAIN workers :
    /\ workers[w].pc = "tpl_saved"
    /\ executions' = [executions EXCEPT ![workers[w].execution].template = <<"t1">>]
    /\ workers' = [workers EXCEPT ![w].pc = "done"]
    /\ UNCHANGED <<pc, req, llm, calls, loc, result, templates, response, rater>>
    /\ UNCHANGED <<sanVars, testVars>>

\* The rating action up to the assignments: get_object loads the whole row,
\* and the serializer lets a rating of 1 to 5 through (400 otherwise).
RateGet ==
  /\ rater.pc = "idle"
  /\ \E k \in DOMAIN executions, rating \in {0, 1, 5, 6},
        feedback \in {<<>>, <<"o","k">>} :
       rater' = IF rating \in 1..5
                  THEN [pc |-> "loaded", execution |-> executions[k],
                        rating |-> rating, feedback |-> feedback]
                  ELSE [pc |-> "rejected"]
  /\ UNCHANGED <<reqVars, workers>>
  /\ UNCHANGED <<sanVars, testVars>>

\* execution.save() of the rating action: every column of the row is
\* written from the object that was loaded.
RateSave ==
  /\ rater.pc = "loaded"
  /\ executions' = [executions EXCEPT ![rater.execution.id] =
                      [rater.execution EXCEPT !.rating = <<rater.rating>>,
                                              !.feedback = rater.feedback]]
  /\ rater' = [pc |-> "done"]
  /\ UNCHANGED <<pc, req, llm, calls, loc, result, templates, response, workers>>
  /\ UNCHANGED <<sanVars, testVars>>

NextConcurrent ==
  \/ WorkerRecord
  \/ WorkerGetTemplate
  \/ WorkerSaveUsage
  \/ WorkerLinkTemplate
  \/ RateGet
  \/ RateSave

SpecConcurrent == InitConcurrent /\ [][NextConcurrent]_vars

\* ------------------------------------------------------------------ system

Init ==
  /\ InitRequests
  /\ workers = <<>>
  /\ rater = NoRater
  /\ costIn = NoCost
  /\ costOut = <<>>
  /\ sanIn = <<>>
  /\ sanOnce = <<>>
  /\ sanTwice = <<>>
  /\ sanPc = "start"

Next ==
  \/ RejectInvalid
  \/ ReceiveSelfCorrecting
  \/ SelfCorrectGenerate
  \/ SelfCorrectCritique
  \/ SelfCorrectRevise
  \/ SelfCorrectReturn
  \/ ReceiveSchemaEnforcer
  \/ SchemaAttempt
  \/ SchemaReturn
  \/ ReceiveCompare
  \/ CompareRun
  \/ CompareJudge
  \/ ReceiveQualityPipeline
  \/ QualityGenerate
  \/ QualityCheck
  \/ QualityRevise
  \/ QualityRecheck
  \/ QualityReturn
  \/ ReceiveDecomposition
  \/ DecomposePlan
  \/ DecomposeStep
  \/ DecomposeIntegrate
  \/ ReceiveExpertPanel
  \/ ExpertSpeaks
  \/ ModeratorSynthesizes
  \/ ReceiveRag
  \/ RagRetrieve
  \/ RagAnswer
  \/ RagBaseline
  \/ ReceiveCustom
  \/ execute_custom_prompt
  \/ ReceiveBatch
  \/ BatchRun
  \/ BatchReturn
  \/ BatchRespond
  \/ ReceiveTestSuite
  \/ TestCaseRun
  \/ TestSuiteReturn
  \/ AdvancedRecord
  \/ FeatureRecord
  \/ FeatureGetTemplate
  \/ FeatureSaveUsage
  \/ FeatureLinkTemplate
  \/ UnhandledError
  \/ rate
  \/ DestroyTemplate

Spec == Init /\ [][Next]_vars

\* ------------------------------------------------------------------ claims

\* The service function has returned its result to the view.
Returned ==
  \/ pc = "returned"
  \/ pc \in {"created", "tpl_loaded", "tpl_saved", "done"} /\ executions # <<>>

RECURSIVE Sum(_)
Sum(numbers) ==
  IF numbers = <<>> THEN 0 ELSE Head(numbers) + Sum(Tail(numbers))

\* The text parses, after sanitizing, to an object whose passes_threshold
\* is true.
CritiquePasses(critique) ==
  LET p == json_loads(_sanitize_json(critique))
  IN  /\ p.ok
      /\ p.v.t = "obj"
      /\ DictGet(p.v, <<"p","a","s","s","e","s","_","t","h","r","e","s","h",
                        "o","l","d">>, JBool(FALSE)) = JBool(TRUE)

\* The sanitized text holds an object or an array that parses.
SpanParses(text) ==
  \E i \in DOMAIN text :
    /\ text[i] \in {"{", "["}
    /\ \E j \in i..Len(text) :
         text[j] \in {"}", "]"} /\ json_loads(SubSeq(text, i, j)).ok

ContainsJson(output) ==
  SpanParses(_sanitize_json(output))

\* C1: execute_self_correcting records at most 1 + 2 * max_rounds stage
\* entries, and it stops at the first critique whose sanitized text parses to
\* an object with passes_threshold = true: nothing is recorded after it.
C1_SelfCorrectBound ==
  (req.category = "self_correcting" /\ loc # NoLoc) =>
    /\ Len(loc.rounds) <= 1 + 2 * req.max_rounds
    /\ Len(calls) <= 1 + 2 * req.max_rounds
    /\ \A k \in DOMAIN loc.rounds :
         (loc.rounds[k].type = "critique" /\ CritiquePasses(loc.rounds[k].output))
           => k = Len(loc.rounds)

\* The second critique of a run of two rounds passes, and the run returns
\* after it with four entries.
C1_Witness ==
  /\ req.category = "self_correcting"
  /\ pc = "returned"
  /\ req.max_rounds = 2
  /\ Len(loc.rounds) = 4
  /\ loc.rounds[4].type = "critique"
  /\ CritiquePasses(loc.rounds[4].output)

\* C2: an enforce_schema call whose first output contains parseable JSON
\* makes exactly one adapter call and reports total_attempts = 1 and
\* success = true, with result equal to that output.
C2_FirstValidOnce ==
  (/\ req.category = "schema_enforcer"
   /\ pc = "returned"
   /\ ContainsJson(calls[1].result.output))
    => /\ Len(calls) = 1
       /\ result.output.total_attempts = 1
       /\ result.output.success
       /\ result.output.result = <<calls[1].result.output>>

\* C3: an enforce_schema call in which every attempt yields unparseable
\* text makes exactly max_retries adapter calls, returns normally, and
\* reports success = false and total_attempts = max_retries.
C3_AllInvalidExhausts ==
  (/\ req.category = "schema_enforcer"
   /\ pc \in {"returned", "raised"}
   /\ \A k \in DOMAIN calls : ~ContainsJson(calls[k].result.output))
    => /\ pc = "returned"
       /\ Len(calls) = req.max_retries
       /\ ~result.output.success
       /\ result.output.total_attempts = req.max_retries

\* C4: _sanitize_json is idempotent: sanitizing a sanitized text changes
\* nothing.
C4_SanitizeIdempotent ==
  sanPc = "twice" => sanTwice = sanOnce

\* The adapter calls of the run whose result carries the error key.
ErrorResults ==
  {k \in DOMAIN calls : calls[k].result.has_error}

C7_PipelinePropagatesError ==
  (/\ req.view = "advanced"
   /\ Returned
   /\ ErrorResults # {})
    => /\ result.has_error
       /\ \E k \in ErrorResults : result.error = calls[k].result.error
       /\ \A e \in DOMAIN executions :
            /\ executions[e].status = "failed"
            /\ executions[e].error_message = result.error

\* The pipelines whose result holds running totals.
TotallingPipelines ==
  {"self_correcting", "quality_pipeline", "decomposition", "expert_panel",
   "rag_simulator"}

\* C8: for the self-correcting loop, the quality pipeline, the
\* decomposition, the expert panel and the RAG simulator the totals returned
\* are the sums over all adapter calls of the run: of the costs, of the
\* latencies, and of the input plus output tokens.
C8_TotalsAreSums ==
  (Returned /\ req.category \in TotallingPipelines) =>
    /\ result.cost_estimate =
         Sum([k \in DOMAIN calls |-> calls[k].result.cost_estimate])
    /\ result.latency_ms =
         Sum([k \in DOMAIN calls |-> calls[k].result.latency_ms])
    /\ result.tokens_input =
         Sum([k \in DOMAIN calls |->
                calls[k].result.tokens_input + calls[k].result.tokens_output])

\* A decomposition of two sub-tasks has returned after four calls that cost.
C8_Witness ==
  /\ req.category = "decomposition"
  /\ pc = "returned"
  /\ Len(calls) = 4
  /\ \A k \in DOMAIN calls : calls[k].result.cost_estimate > 0
  /\ result.latency_ms > 0

\* The two records agree on every field but rating and feedback.
SameButRating(a, b) ==
  [a EXCEPT !.rating = <<>>, !.feedback = <<>>]
    = [b EXCEPT !.rating = <<>>, !.feedback = <<>>]

\* C9: once a record exists nothing but the rating action writes to it:
\* every field other than rating and feedback keeps the value it was
\* created with, and the record is never deleted.
C9_RecordWrittenOnce ==
  [][\A k \in DOMAIN executions :
       /\ k \in DOMAIN executions'
       /\ SameButRating(executions[k], executions'[k])]_vars

\* C10: a request creates exactly one record, and only after the service
\* function has returned: none exists while adapter calls are made, none is
\* created when the pipeline raises, and the record's status is completed
\* exactly when the result has no error, failed otherwise.
C10_OneRecordAfterReturn ==
  /\ Len(executions) <= 1
  /\ pc \in {"idle", "service", "returned", "raised"} => executions = <<>>
  /\ pc = "done" =>
       IF response.execution_id = 0 THEN executions = <<>>
       ELSE Len(executions) = 1 /\ executions[1].id = response.execution_id
  /\ \A k \in DOMAIN executions :
       /\ executions[k].status = "completed" <=> ~result.has_error
       /\ executions[k].status = "failed" <=> result.has_error

\* A request whose only call failed is answered, with a failed record.
C10_Witness ==
  /\ pc = "done"
  /\ Len(executions) = 1
  /\ executions[1].status = "failed"
  /\ result.has_error
  /\ response.status = 500

\* The body meets what the two serializers ask for.
Acceptable(data) ==
  /\ data.prompt_text # <<>>
  /\ data.input_text # <<>>
  /\ data.category = "schema_enforcer" =>
       data.schema_text # <<>> /\ data.max_retries >= 1 /\ data.max_retries <= 5
  /\ data.category = "self_correcting" =>
       data.max_rounds >= 1 /\ data.max_rounds <= 5

\* C11: a request whose body fails validation (a missing required field, a
\* number out of its range) is rejected before any adapter call is made and
\* before any record is created.
C11_InvalidRejected ==
  (req.category \in {"self_correcting", "schema_enforcer"} /\ ~Acceptable(req))
    => /\ calls = <<>>
       /\ executions = <<>>
       /\ pc = "done"
       /\ response.status = 400

\* A self-correcting request with max_rounds = 6 has been answered.
C11_Witness ==
  /\ req.category = "self_correcting"
  /\ req.prompt_text # <<>>
  /\ req.max_rounds = 6
  /\ pc = "done"
  /\ response.status = 400

\* C12: in the self-correcting loop, the quality pipeline, the decomposition
\* and the RAG simulator, whatever text a model stage returns, the pipeline
\* never aborts: it runs its remaining stages and returns a result.
C12_NeverAborts ==
  req.category \in {"self_correcting", "quality_pipeline", "decomposition",
                    "rag_simulator"}
    => pc # "raised"


\* What the check's output says: <<v>> when it parses, after sanitizing, to
\* an object whose passed is v (true when the object has none), <<>> when it
\* does not parse to an object.
CheckVerdict(output) ==
  LET p == json_loads(_sanitize_json(output))
  IN  IF p.ok /\ p.v.t = "obj"
        THEN <<DictGet(p.v, <<"p", "a", "s", "s", "e", "d">>, JBool(TRUE))>>
        ELSE <<>>

C13_WitnessRevised ==
  /\ req.category = "quality_pipeline"
  /\ pc = "returned"
  /\ Len(calls) = 4
  /\ CheckVerdict(calls[2].result.output) = <<JBool(FALSE)>>


\* C14: for every non-empty list of N inputs run_batch_evaluation makes
\* exactly N adapter calls, one per input in the order of the inputs, and
\* returns a summary with total_inputs = N, total_latency_ms the sum of the
\* latencies of the inputs, and avg_latency_ms that sum divided by N, as
\* integers.
C14_BatchSummary ==
  req.category = "batch_evaluation" =>
    /\ pc # "raised"
    /\ Len(calls) <= Len(req.inputs)
    /\ \A k \in DOMAIN calls :
         calls[k].user_prompt =
           req.prompt_text \o <<"\n", "\n", "I", "n", "p", "u", "t", ":", " ">>
             \o req.inputs[k]
    /\ pc \in {"returned", "done"} =>
         LET N == Len(req.inputs)
             total == Sum([k \in DOMAIN calls |-> calls[k].result.latency_ms])
             summary == result.output.summary
         IN  /\ Len(calls) = N
             /\ Len(result.output.results) = N
             /\ \A k \in 1..N :
                  /\ result.output.results[k].index = k
                  /\ result.output.results[k].latency_ms
                       = calls[k].result.latency_ms
             /\ summary.total_inputs = N
             /\ summary.total_latency_ms = total
             /\ summary.avg_latency_ms * N <= total
             /\ total < (summary.avg_latency_ms + 1) * N

\* A batch of three inputs has returned with a sum of latencies that three
\* does not divide.
C14_Witness ==
  /\ req.category = "batch_evaluation"
  /\ pc = "returned"
  /\ Len(req.inputs) = 3
  /\ Len(calls) = 3
  /\ result.output.summary.total_latency_ms % 3 # 0
  /\ result.output.summary.avg_latency_ms > 0


\* The rates of the pricing table in 1e-8 dollars per token, as the source
\* lists them per 1000 tokens: 0.00015 and 0.0006 dollars for gpt-4o-mini.
ListedRates(model) ==
  CASE model = "gpt-4o-mini"                -> <<15, 60>>
    [] model = "gpt-4o"                     -> <<500, 1500>>
    [] model = "gpt-4"                      -> <<3000, 6000>>
    [] model = "claude-3-5-sonnet-20241022" -> <<300, 1500>>
    [] model = "claude-3-haiku-20240307"    -> <<25, 125>>
    [] OTHER                                -> <<100, 200>>

\* C15: for every model of the pricing table _estimate_cost(model, 1000,
\* 1000) is the entry's input rate plus its output rate, for every other
\* model it is the sum of the default rates (0.001 + 0.002); in general the
\* cost is tokens_in / 1000 * input rate + tokens_out / 1000 * output rate,
\* rounded to 6 decimals (costs are counted in 1e-6 dollars).
C15_CostFromTable ==
  costOut # <<>> =>
    LET rates == ListedRates(costIn.model)
        exact == costIn.tokens_in * rates[1] + costIn.tokens_out * rates[2]
        c     == costOut[1]
    IN  /\ (costIn.tokens_in = 1000 /\ costIn.tokens_out = 1000) =>
             c = 10 * (rates[1] + rates[2])
        /\ 100 * c - exact <= 50
        /\ exact - 100 * c <= 50

\* The cost of 1000 and 1000 tokens of gpt-4 is 0.09 dollars.
C15_Witness ==
  /\ costIn = [model |-> "gpt-4", tokens_in |-> 1000, tokens_out |-> 1000]
  /\ costOut = <<90000>>


\* The sum of one metric over the adapter calls of the run.
MetricSum(metric) ==
  Sum([k \in DOMAIN calls |-> calls[k].result[metric]])

\* C16: the tokens_input, tokens_output, cost_estimate and latency_ms that
\* enforce_schema returns are accumulated over every attempt: each equals
\* the sum of that metric over all adapter calls of the run.
C16_SchemaMetricsSummed ==
  (req.category = "schema_enforcer" /\ pc = "returned") =>
    /\ result.tokens_input = MetricSum("tokens_input")
    /\ result.tokens_output = MetricSum("tokens_output")
    /\ result.cost_estimate = MetricSum("cost_estimate")
    /\ result.latency_ms = MetricSum("latency_ms")

\* Attempt k of the run was recorded as invalid, which is when its parse
\* error was assigned to validation_errors.
RecordedInvalid(k) ==
  \E i \in DOMAIN loc.all_attempts :
    /\ loc.all_attempts[i].attempt = k
    /\ ~loc.all_attempts[i].valid

\* C17: in enforce_schema every attempt after the first is issued with the
\* parse error of the attempt just before it: the retry never raises on an
\* unassigned validation_errors, and the attempt before an issued retry is
\* the one that assigned the error the prompt carries.
C17_RetryCarriesOwnError ==
  req.category = "schema_enforcer" =>
    /\ pc # "raised"
    /\ \A k \in 2..Len(calls) : RecordedInvalid(k - 1)

\* C18: when enforce_schema exhausts max_retries without a valid attempt,
\* the result it returns is the output of the last attempt made, and the
\* attempts list has one entry per adapter call, numbered 1..max_retries.
C18_ExhaustedReturnsLast ==
  (/\ req.category = "schema_enforcer"
   /\ pc = "returned"
   /\ ~result.output.success) =>
    /\ result.output.result = <<calls[Len(calls)].result.output>>
    /\ Len(result.output.attempts) = Len(calls)
    /\ Len(calls) = req.max_retries
    /\ \A i \in DOMAIN result.output.attempts :
         result.output.attempts[i].attempt = i

\* C19: enforce_schema makes a further attempt only after an attempt whose
\* output failed JSON validation, never after an attempt whose adapter call
\* returned a transport error.
C19_NoRetryAfterTransportError ==
  req.category = "schema_enforcer" =>
    \A k \in 2..Len(calls) : ~calls[k - 1].result.has_error


\* The first n characters of a text, the whole text when it is shorter.
Prefix(text, n) ==
  [i \in 1..(IF Len(text) < n THEN Len(text) ELSE n) |-> text[i]]

\* The texts of parts occur in text one after another, from index from on.
RECURSIVE InOrder(_, _, _)
InOrder(text, parts, from) ==
  \/ parts = <<>>
  \/ \E i \in from..(Len(text) - Len(Head(parts)) + 1) :
       /\ HasAt(text, i, Head(parts))
       /\ InOrder(text, Tail(parts), i + Len(Head(parts)))

\* C20: execute_decomposition makes its calls in the order plan, sub-task
\* 1 .. sub-task n, integrate (2 + n calls); the prompt of the first
\* sub-task is its instruction alone, the prompt of sub-task k > 1 is its
\* instruction and a context that holds the first 500 characters of the
\* output of sub-task k - 1 and nothing else; the integrate prompt holds
\* every sub-task output in order.
C20_DecompositionOrder ==
  (req.category = "decomposition" /\ pc = "returned") =>
    LET n == result.output.sub_task_count
        instruction(k) ==
          PyStr(DictGet(loc.sub_tasks[k], <<"i", "n", "s", "t", "r", "u", "c",
                                            "t", "i", "o", "n">>, JStr(<<>>)))
        output(k) == calls[k + 1].result.output
    IN  /\ Len(calls) = n + 2
        /\ calls[1].stage = "Planning"
        /\ \A k \in 1..n : calls[k + 1].stage = "Step"
        /\ calls[n + 2].stage = "Integration"
        /\ n >= 1 => calls[2].user_prompt = instruction(1)
        /\ \A k \in 2..n :
             calls[k + 1].user_prompt =
               instruction(k)
                 \o <<"\n", "\n", "C", "o", "n", "t", "e", "x", "t", " ",
                      "f", "r", "o", "m", " ", "p", "r", "e", "v", "i", "o",
                      "u", "s", " ", "s", "t", "e", "p", "s", ":", "\n">>
                 \o Prefix(output(k - 1), 500)
        /\ InOrder(calls[n + 2].user_prompt, [k \in 1..n |-> output(k)], 1)

\* A decomposition of three sub-tasks has returned; the first and the third
\* sub-task answered 520 characters, the second a short text.
C20_Witness ==
  /\ req.category = "decomposition"
  /\ pc = "returned"
  /\ Len(calls) = 5
  /\ Len(calls[2].result.output) > 500
  /\ calls[3].result.output = <<"R", "e", "s", "u", "l", "t", " ", "A", ".">>
  /\ Len(calls[4].result.output) > 500


\* C21: execute_decomposition executes as many sub-tasks as the plan lists,
\* one sub-task whose instruction is the whole task description when no
\* list can be parsed from the plan, and the sub_task_count it reports is
\* never 0.
C21_SubTaskCountPositive ==
  (req.category = "decomposition" /\ pc = "returned") =>
    /\ result.output.sub_task_count >= 1
    /\ Len(calls) = result.output.sub_task_count + 2
    /\ ~ContainsJson(calls[1].result.output) =>
         /\ result.output.sub_task_count = 1
         /\ calls[2].user_prompt = req.task_description


\* C22: every pipeline invocation the validators accept issues between 2
\* and 6 adapter calls, whatever its parameters and the model's outputs.
C22_TwoToSixCalls ==
  (/\ pc = "returned"
   /\ req.category \in {"self_correcting", "schema_enforcer", "quality_pipeline",
                        "decomposition", "expert_panel", "rag_simulator",
                        "batch_evaluation"}) =>
    /\ Len(calls) >= 2
    /\ Len(calls) <= 6


\* The word, in a letter case that is not its lower case, follows the colon
\* at index i of the text (across spaces) and ends at a word boundary.
UnrewrittenAt(text, i, word) ==
  /\ text[i] = ":"
  /\ LET j == SkipSpace(text, i + 1)
         e == j + Len(word)
     IN  /\ e - 1 <= Len(text)
         /\ LowerText(SubSeq(text, j, e - 1)) = word
         /\ SubSeq(text, j, e - 1) # word
         /\ (e > Len(text) \/ ~IsWord(text[e]))

\* The indexes of the commas that precede a closing brace or bracket with
\* nothing but spaces between, and of those spaces.
BeforeClosing(text) ==
  {i \in DOMAIN text :
     \E c \in 1..i : \E j \in (i + 1)..Len(text) :
       /\ text[c] = ","
       /\ text[j] \in {"}", "]"}
       /\ \A m \in (c + 1)..(j - 1) : IsSpace(text[m])}

\* The text without the characters at the indexes of drop.
RECURSIVE Without(_, _, _)
Without(text, drop, i) ==
  IF i > Len(text) THEN <<>>
  ELSE (IF i \in drop THEN <<>> ELSE <<text[i]>>) \o Without(text, drop, i + 1)

\* A text the first five steps of the sanitizer leave as it is: no backtick,
\* no colon, no space at either end.
Plain(text) ==
  /\ \A i \in DOMAIN text : text[i] \notin {Tick, ":"}
  /\ text # <<>> => ~IsSpace(text[1]) /\ ~IsSpace(text[Len(text)])

C23_WitnessComma ==
  /\ sanIn = <<"x", ",", " ", "}">>
  /\ sanPc = "once"
  /\ sanOnce = <<"x", "}">>


\* The number of the test case that the call at index k of the log belongs
\* to.
CaseOfCall(k) ==
  Cardinality({j \in 1..k : calls[j].stage = "case"})

\* C24: in run_test_suite a case whose evaluator output does not parse after
\* sanitizing is recorded with score 50, passed = false and the evaluation
\* 'Could not auto-evaluate', and the run goes on; after the run there is
\* exactly one TestResult per test case, and passed_cases <= total_cases.
C24_EvaluatorFallback ==
  req.view = "test_suite" =>
    /\ \A k \in DOMAIN calls :
         (/\ calls[k].stage = "evaluate"
          /\ ~json_loads(_sanitize_json(calls[k].result.output)).ok) =>
           /\ CaseOfCall(k) \in DOMAIN test_results
           /\ test_results[CaseOfCall(k)].score = 50
           /\ ~test_results[CaseOfCall(k)].passed
           /\ test_results[CaseOfCall(k)].evaluation
                = <<"C", "o", "u", "l", "d", " ", "n", "o", "t", " ", "a", "u",
                    "t", "o", "-", "e", "v", "a", "l", "u", "a", "t", "e">>
           /\ k = Len(calls) => pc # "raised"
    /\ (pc = "done" /\ response.status = 200) =>
         /\ Len(test_results) = Len(req.suite.test_cases)
         /\ \A i \in DOMAIN test_results :
              test_results[i].test_case = i /\ test_results[i].run = 1
         /\ test_runs[1].total_cases = Len(req.suite.test_cases)
         /\ test_runs[1].passed_cases <= test_runs[1].total_cases

\* A run of two cases has ended; the evaluator's answer for the first did
\* not parse, the second case scored 90.
C24_Witness ==
  /\ req.view = "test_suite"
  /\ pc = "done"
  /\ llm
  /\ Len(test_results) = 2
  /\ calls[2].result.output = <<"L", "o", "o", "k", "s", " ", "g", "o", "o", "d">>
  /\ test_results[1].score = 50
  /\ test_results[2].score = 90
  /\ test_runs[1].passed_cases = 1


\* Every feature request of the concurrent run has been answered.
WorkersDone ==
  \A w \in DOMAIN workers : workers[w].pc = "done"

\* C25: when several requests that name the same template are handled at
\* the same time, no increment is lost: once all are done the template's
\* usage_count has grown by the number of requests, and every record they
\* created is linked to the template.
C25_NoLostIncrement ==
  (workers # <<>> /\ WorkersDone /\ rater.pc = "idle") =>
    /\ templates["t1"] = Len(workers)
    /\ \A w \in DOMAIN workers :
         executions[workers[w].execution].template = <<"t1">>

\* C26: the rating action changes only the rating and the feedback of its
\* record, also when it interleaves with the request that created the
\* record: once both are done every other field, the template link
\* included, has the value the creating request gave it; the rating stored
\* is unset or an integer from 1 to 5.
C26_RatingTouchesOnlyRating ==
  /\ \A k \in DOMAIN executions :
       \/ executions[k].rating = <<>>
       \/ executions[k].rating[1] \in 1..5
  /\ (workers # <<>> /\ WorkersDone /\ rater.pc = "done") =>
       \A w \in DOMAIN workers :
         LET row == executions[workers[w].execution]
         IN  /\ row.template = <<"t1">>
             /\ row.id = workers[w].execution
             /\ row.category = "custom"
             /\ row.status = "completed"
             /\ row.output_data = <<"F", "i", "n", "e", ".">>

\* The quality_score of a critique that parses, after sanitizing, to an object
\* with a numeric quality_score; 0 for any other critique.
QualityScore(critique) ==
  LET p == json_loads(_sanitize_json(critique))
  IN  IF p.ok /\ p.v.t = "obj"
        THEN LET q == DictGet(p.v, <<"q","u","a","l","i","t","y","_","s","c",
                                     "o","r","e">>, JNum(0))
             IN  IF q.t = "num" THEN q.n ELSE 0
        ELSE 0

\* The loop of execute_self_correcting ended on its last critique: the run is
\* past the loop and the last stage recorded is a critique.
EndedOnCritique ==
  /\ req.category = "self_correcting"
  /\ loc # NoLoc
  /\ loc.at = "finish"
  /\ loc.rounds # <<>>
  /\ loc.rounds[Len(loc.rounds)].type = "critique"

\* C27: the threshold of the request influences the run of
\* execute_self_correcting: a critique whose quality_score is below the
\* requested threshold never ends the loop.
C27_ThresholdRespected ==
  EndedOnCritique =>
    QualityScore(loc.rounds[Len(loc.rounds)].output) >= req.threshold


\* The index of the last generation or revision entry of a list of rounds.
LastDraft(rounds) ==
  CHOOSE k \in DOMAIN rounds :
    /\ rounds[k].type \in {"generation", "revision"}
    /\ \A j \in DOMAIN rounds :
         rounds[j].type \in {"generation", "revision"} => j <= k

\* The text occurs somewhere in the prompt.
Holds(prompt, text) ==
  \E i \in 1..(Len(prompt) - Len(text) + 1) : HasAt(prompt, i, text)

\* C28: execute_self_correcting returns as final_output the output of the
\* last generation or revision it ran, and as total_rounds the number of
\* critiques it ran, which is between 1 and max_rounds; every critique is
\* asked about the output of the stage right before it, and every revision
\* is given that output and the critique.
C28_StagesChained ==
  (req.category = "self_correcting" /\ pc = "returned") =>
    LET rounds == result.output.rounds
    IN  /\ Len(calls) = Len(rounds)
        /\ rounds[1].type = "generation"
        /\ \A k \in DOMAIN rounds : rounds[k].output = calls[k].result.output
        /\ result.output.final_output = rounds[LastDraft(rounds)].output
        /\ result.output.total_rounds =
             Cardinality({k \in DOMAIN calls : calls[k].stage = "critique"})
        /\ result.output.total_rounds >= 1
        /\ result.output.total_rounds <= req.max_rounds
        /\ \A k \in DOMAIN rounds :
             rounds[k].type = "critique" =>
               /\ calls[k].stage = "critique"
               /\ rounds[k - 1].type \in {"generation", "revision"}
               /\ Holds(calls[k].user_prompt,
                        <<"R","e","s","p","o","n","s","e"," ","t","o"," ","e",
                          "v","a","l","u","a","t","e",":","\n","-","-","-",
                          "\n">>
                          \o rounds[k - 1].output \o <<"\n","-","-","-">>)
        /\ \A k \in DOMAIN rounds :
             rounds[k].type = "revision" =>
               /\ calls[k].stage = "revision"
               /\ rounds[k - 1].type = "critique"
               /\ Holds(calls[k].user_prompt,
                        <<"C","u","r","r","e","n","t"," ","r","e","s","p","o",
                          "n","s","e",":","\n","-","-","-","\n">>
                          \o rounds[k - 2].output
                          \o <<"\n","-","-","-","\n","\n","C","r","i","t","i",
                               "c","'","s"," ","f","e","e","d","b","a","c",
                               "k",":","\n","-","-","-","\n">>
                          \o rounds[k - 1].output \o <<"\n","-","-","-">>)

\* A run of two rounds has returned after its second revision; the first
\* revision failed and the second answered, so the second critique was asked
\* about another text than the first.
C28_Witness ==
  /\ req.category = "self_correcting"
  /\ pc = "returned"
  /\ Len(calls) = 5
  /\ result.output.total_rounds = 2
  /\ calls[1].result.output # <<>>
  /\ calls[3].result.output = <<>>
  /\ calls[5].result.output # <<>>
  /\ calls[2].result.output # calls[4].result.output
  /\ result.output.final_output = calls[5].result.output


\* The names of the stage entries, in order.
StageNames(stages) ==
  [k \in DOMAIN stages |-> stages[k].stage]

\* C29: execute_quality_pipeline returns four stage entries in the order
\* Generator, Safety & Quality Check, Reviser, Final Validation, the last two
\* skipped when they did not run, and all_passed is true only if final_content
\* is the content a check was asked about and that check's output says passed.
C29_AllPassedJudged ==
  (req.category = "quality_pipeline" /\ pc = "returned") =>
    LET stages == result.output.stages
    IN  /\ StageNames(stages) = <<"Generator", "Safety & Quality Check",
                                  "Reviser", "Final Validation">>
        /\ Len(calls) \in {2, 4}
        /\ \A k \in 3..4 : (stages[k].status = "skipped") <=> (Len(calls) = 2)
        /\ Truthy(result.output.all_passed) =>
             \E k \in DOMAIN calls :
               /\ calls[k].stage \in {"Safety & Quality Check",
                                      "Final Validation"}
               /\ Holds(calls[k].user_prompt,
                        <<"C","o","n","t","e","n","t"," ","t","o"," ","r","e",
                          "v","i","e","w",":","\n","-","-","-","\n">>
                          \o result.output.final_content \o <<"\n","-","-","-">>)
               /\ CheckVerdict(calls[k].result.output) # <<>>
               /\ Truthy(CheckVerdict(calls[k].result.output)[1])


\* C30: in execute_rag_simulator every selected chunk has an index in
\* 1..num_chunks_total and the text of that chunk, at most 3 chunks are
\* selected, none of them twice, and num_chunks_retrieved is at most
\* num_chunks_total; a retrieval output that does not parse selects the first
\* min(3, num_chunks_total) chunks in order.
C30_SelectionSound ==
  (req.category = "rag_simulator" /\ pc = "returned") =>
    LET selected == result.output.selected_chunks
        total    == result.output.num_chunks_total
    IN  /\ total = Len(req.knowledge_chunks)
        /\ result.output.num_chunks_retrieved = Len(selected)
        /\ Len(selected) <= 3
        /\ \A k \in DOMAIN selected :
             /\ selected[k].chunk_index \in 1..total
             /\ selected[k].text = req.knowledge_chunks[selected[k].chunk_index]
        /\ ~json_loads(_sanitize_json(result.output.retrieval)).ok =>
             /\ Len(selected) = (IF total < 3 THEN total ELSE 3)
             /\ \A k \in DOMAIN selected : selected[k].chunk_index = k
        /\ \A j, k \in DOMAIN selected :
             selected[j].chunk_index = selected[k].chunk_index => j = k
        /\ result.output.num_chunks_retrieved <= total

=============================================================================
